---- MODULE Spec2Model ----
(***************************************************************************)
(* Model of the iroh DTMF state machine engine                             *)
(* (src/iroh/core/dtmf_state_machine.py) as it is driven by the phone      *)
(* event pipeline (src/iroh/core/phone_manager.py).                        *)
(*                                                                         *)
(* The engine runs on one asyncio event loop.  A step of the model is the  *)
(* code one task executes between two suspension points: the pipeline      *)
(* task (the caller of start and handle_event) suspends while it awaits a  *)
(* bound handler or an on-enter handler, a dwell-timeout task suspends in  *)
(* asyncio.sleep.                                                          *)
(***************************************************************************)
EXTENDS Integers, Sequences, FiniteSets, TLC

VARIABLES
    doc,      \* the content of the state table file given to the constructor
    engine,   \* "unloaded", "ready" (constructed) or "failed" (constructor raised)
    states,   \* self.states: name -> State, as parsed by _load_config
    cur,      \* self.current_state (its name), None before the first transition
    buf,      \* self.buffer: the values of the buffered DTMFEvents, in order
    tt,       \* self.timeout_task: index into tasks, 0 for None
    tasks,    \* every dwell-timeout task created so far, in creation order
    pc,       \* where the pipeline task is suspended inside the engine
    call,     \* observation: what the handle_event call in progress has done
    evs,      \* observation: what the last step did, in order
    off_hook, \* PhoneManager.off_hook
    running,  \* PhoneManager._running
    ws,       \* PhoneManager._ws: "open" for a connection object, else None
    reader,   \* the _event_loop task: "none" (not created), "recv", "busy"
              \* (inside handle_phone_event), "sleep" or "ended"
    service,  \* the phone API server: "up" or "down"
    link,     \* the event stream: None, "up" or "closed"
    queue,    \* the messages the stream holds for recv(), oldest first
    timers,   \* every Timer created so far, in creation order; its index
              \* stands for its uuid4 id
    now,      \* datetime.now(), in seconds since the TimerManager was built
    sweep_at, \* the time the sleep of the _cleanup_loop task ends
    tlog,     \* observation: what the last step of the timer subsystem did
    events,   \* the event list handed to CommandParser.parse_sequence
    command,  \* what parse_sequence returned for it
    current_state,   \* StateManager.current_state
    previous_state,  \* StateManager.previous_state
    state_changes,   \* StateManager.debug_info["state_changes"], oldest first
    set_state_raised \* observation: the request of the last set_state call
                     \* and whether it raised StateError

\* the variables of the phone event pipeline
pipe == <<off_hook, running, ws, reader, service, link, queue>>

\* the variables of the timer subsystem
tm == <<timers, now, sweep_at, tlog>>

\* the variables of the command parser
parser == <<events, command>>

\* the variables of the system state tracker
sm == <<current_state, previous_state, state_changes, set_state_raised>>

vars == <<doc, engine, states, cur, buf, tt, tasks, pc, call, evs,
          off_hook, running, ws, reader, service, link, queue,
          timers, now, sweep_at, tlog,
          events, command,
          current_state, previous_state, state_changes, set_state_raised>>

----------------------------------------------------------------------------
(* Bounds of the exploration *)

\* handle_event is not offered once the buffer holds this many symbols
MaxBuf == 3

\* no step is offered that could create a task beyond this many
MaxTasks == 6

\* the event stream holds at most this many messages that were not received
MaxQueue == 1

\* the pipeline offers no step that could create a task beyond this many
MaxPipeTasks == 4

----------------------------------------------------------------------------
(* Values *)

None == "none"

\* the DTMF symbols fed to the engine (digits, star, hash)
Sym == {"6", "9", "*", "#"}

Digits == {"6", "9"}

\* names bound with register_handler
Handlers ==
    { "timer_manager.create_timer",
      "timer_manager.announce_timers",
      "home_assistant.lights_on",
      "home_assistant.lights_off",
      "home_assistant.set_temperature" }

\* names bound with register_transformer
Transformers == { "minutes_from_digits", "temperature_from_digits" }

----------------------------------------------------------------------------
(* Patterns: a regular expression is a sequence of character classes, each *)
(* with a repetition range; re.match(f"^{pattern}$", input_str)            *)

Cls(set, lo, hi) == [cls |-> set, lo |-> lo, hi |-> hi]

RECURSIVE Matches(_, _)
Matches(p, s) ==
    IF p = <<>> THEN s = <<>>
    ELSE LET it == Head(p) IN
         \E n \in it.lo .. it.hi :
            /\ n <= Len(s)
            /\ \A j \in 1 .. n : s[j] \in it.cls
            /\ Matches(Tail(p), SubSeq(s, n + 1, Len(s)))

\* a mutation of EndsWith: any ending of the right length is taken for the terminator
EndsWithAnything(s, term) == Len(term) <= Len(s)

\* input_str.endswith(terminator)
EndsWith(s, term) ==
    /\ Len(term) <= Len(s)
    /\ SubSeq(s, Len(s) - Len(term) + 1, Len(s)) = term

\* input_str[:-len(terminator)]
StripTerminator(s, term) == SubSeq(s, 1, Len(s) - Len(term))

----------------------------------------------------------------------------
(* Transformers: int(digits) and the range checks *)

DigitVal(c) == IF c = "6" THEN 6 ELSE 9

RECURSIVE IntOf(_)
IntOf(s) == IF s = <<>> THEN 0 ELSE 10 * IntOf(SubSeq(s, 1, Len(s) - 1)) + DigitVal(s[Len(s)])

\* int(digits) raises ValueError on an empty string and on a non-digit
IsInt(s) == s /= <<>> /\ \A j \in 1 .. Len(s) : s[j] \in Digits

Raised == [ok |-> FALSE, val |-> 0]

Value(n) == [ok |-> TRUE, val |-> n]

_transform_minutes(s) ==
    IF ~IsInt(s) THEN Raised
    ELSE IF ~(1 <= IntOf(s) /\ IntOf(s) <= 999) THEN Raised
    ELSE Value(IntOf(s))

_transform_temperature(s) ==
    IF ~IsInt(s) THEN Raised
    ELSE IF ~(60 <= IntOf(s) /\ IntOf(s) <= 85) THEN Raised
    ELSE Value(IntOf(s))

\* transformer(input_str) for a registered transformer name
ApplyTransform(name, s) ==
    IF name = "minutes_from_digits" THEN _transform_minutes(s)
    ELSE _transform_temperature(s)

----------------------------------------------------------------------------
(* State tables.  A missing key is None (names), <<>> (timeout,            *)
(* terminator, lists) or has_pattern = FALSE.                              *)

HandlerCfg(pattern, terminator, handler, transform, next_state) ==
    [ has_pattern |-> TRUE, pattern |-> pattern, terminator |-> terminator,
      handler |-> handler, transform |-> transform, next_state |-> next_state ]

StateCfg(handlers, timeout, on_enter, on_timeout, on_invalid) ==
    [ handlers |-> handlers, timeout |-> timeout, on_enter |-> on_enter,
      on_timeout |-> on_timeout, on_invalid |-> on_invalid ]

\* every reference declared, every handler with a pattern
DocMain ==
    [ default_timeout |-> <<5000>>,
      states |->
        [ initial |-> StateCfg(
            << HandlerCfg(<<Cls(Digits, 1, 1)>>, <<>>,
                          "timer_manager.create_timer", "minutes_from_digits", "initial"),
               HandlerCfg(<<Cls({"*"}, 1, 1)>>, <<>>, None, None, "service"),
               HandlerCfg(<<Cls({"#"}, 1, 1)>>, <<>>, None, None, "temperature") >>,
            <<>>, <<>>, None, None),
          service |-> StateCfg(
            << HandlerCfg(<<Cls({"6"}, 1, 1)>>, <<>>,
                          "home_assistant.lights_on", None, "initial"),
               HandlerCfg(<<Cls(Digits, 1, 1)>>, <<>>,
                          "home_assistant.lights_off", "entity_from_digits", None),
               HandlerCfg(<<Cls({"*"}, 1, 1)>>, <<>>,
                          "home_assistant.activate_scene", None, "service") >>,
            <<10000>>, <<"timer_manager.announce_timers", "audio.greeting">>,
            "initial", "initial"),
          temperature |-> StateCfg(
            << HandlerCfg(<<Cls(Digits, 2, 2), Cls({"#"}, 1, 1)>>, <<"#">>,
                          "home_assistant.set_temperature", "temperature_from_digits",
                          "initial"),
               HandlerCfg(<<Cls(Sym, 3, 3)>>, <<>>, None, None, "service") >>,
            <<15000>>, <<>>, "service", None) ] ]

\* next_state and on_timeout name states that are not declared
DocDangling ==
    [ default_timeout |-> <<5000>>,
      states |->
        [ initial |-> StateCfg(
            << HandlerCfg(<<Cls({"*"}, 1, 1)>>, <<>>, None, None, "lobby"),
               HandlerCfg(<<Cls({"#"}, 1, 1)>>, <<>>, None, None, "initial") >>,
            <<3000>>, <<>>, "nowhere", None) ] ]

\* a handler without a pattern
DocNoPattern ==
    [ default_timeout |-> <<5000>>,
      states |->
        [ initial |-> StateCfg(
            << [ has_pattern |-> FALSE, pattern |-> <<>>, terminator |-> <<>>,
                 handler |-> None, transform |-> None, next_state |-> "initial" ] >>,
            <<3000>>, <<>>, None, None) ] ]

\* no settings.default_timeout
DocNoSettings ==
    [ default_timeout |-> <<>>,
      states |->
        [ initial |-> StateCfg(
            << HandlerCfg(<<Cls({"*"}, 1, 1)>>, <<>>, None, None, "initial") >>,
            <<3000>>, <<>>, None, None) ] ]

\* on_enter handlers on "initial", a terminator that the pattern does not
\* force, and an on_invalid state that is not declared
DocGreeting ==
    [ default_timeout |-> <<5000>>,
      states |->
        [ initial |-> StateCfg(
            << HandlerCfg(<<Cls(Digits, 1, 1), Cls({"#", "*"}, 1, 1)>>, <<"#">>,
                          "timer_manager.create_timer", "minutes_from_digits", None) >>,
            <<>>,
            <<"timer_manager.announce_timers", "audio.greeting",
              "home_assistant.lights_on">>,
            None, "void") ] ]

Docs == { DocMain, DocDangling, DocNoPattern, DocNoSettings, DocGreeting }

\* the states a table declares
Declared(d) == DOMAIN d.states

\* the next_state, on_timeout and on_invalid references of a table
References(d) ==
    UNION { { d.states[s].on_timeout, d.states[s].on_invalid }
            \cup { d.states[s].handlers[i].next_state :
                     i \in 1 .. Len(d.states[s].handlers) } : s \in DOMAIN d.states }
      \ { None }

\* handler_config["pattern"] raises KeyError when the key is missing
EveryHandlerHasPattern(d) ==
    \A s \in DOMAIN d.states :
        \A i \in 1 .. Len(d.states[s].handlers) : d.states[s].handlers[i].has_pattern

\* self.config["settings"]["default_timeout"] is evaluated for every state
DefaultTimeoutReadable(d) == DOMAIN d.states = {} \/ d.default_timeout /= <<>>

ParseState(d, s) ==
    [ handlers   |-> d.states[s].handlers,
      timeout    |-> IF d.states[s].timeout = <<>> THEN d.default_timeout[1]
                     ELSE d.states[s].timeout[1],
      on_enter   |-> d.states[s].on_enter,
      on_timeout |-> d.states[s].on_timeout,
      on_invalid |-> d.states[s].on_invalid ]

\* a mutation of _load_config: references to undeclared states are refused
LoadConfigCheckingReferences(d) ==
    IF EveryHandlerHasPattern(d) /\ DefaultTimeoutReadable(d)
       /\ References(d) \subseteq Declared(d)
    THEN [ok |-> TRUE, states |-> [s \in DOMAIN d.states |-> ParseState(d, s)]]
    ELSE [ok |-> FALSE, states |-> <<>>]

\* _load_config: the parsed states, or the exception it re-raises
_load_config(d) ==
    IF EveryHandlerHasPattern(d) /\ DefaultTimeoutReadable(d)
    THEN [ok |-> TRUE, states |-> [s \in DOMAIN d.states |-> ParseState(d, s)]]
    ELSE [ok |-> FALSE, states |-> <<>>]

----------------------------------------------------------------------------
(* Observations.  evs lists what the last step did; call records what the  *)
(* handle_event call in progress (or the last one) has done so far.        *)

Ev(e, a, b, n) == [e |-> e, a |-> a, b |-> b, n |-> n]

NoCall == [sym |-> None, pmatched |-> FALSE, rearmed |-> FALSE, invoked |-> <<>>,
           failed |-> <<>>]

Idle == [at |-> "idle", s |-> None, i |-> 0, k |-> 0, ret |-> None]

\* the engine as one value, threaded through the code of one step
Engine == [cur |-> cur, buf |-> buf, tt |-> tt, tasks |-> tasks,
           pc |-> pc, call |-> call, evs |-> <<>>]

Emit(E, ev) == [E EXCEPT !.evs = Append(@, ev)]

----------------------------------------------------------------------------
(* Dwell-timeout tasks.  A task is "armed" while it sleeps, "running"      *)
(* after its sleep elapsed, "cancelling" when cancel() was called on it    *)
(* while it runs (the CancelledError is thrown at its next suspension      *)
(* point), "cancelled" when cancel() was called on it while it slept (the  *)
(* CancelledError is thrown into the sleep: nothing after it runs), and    *)
(* "done" once _handle_timeout has returned.  who is the running task:     *)
(* 0 for the pipeline task, else the index of a timeout task.              *)

\* a mutation of Cancel: the old task is left armed
CancelNothing(E, t, who) == E

\* if self.timeout_task: self.timeout_task.cancel()
Cancel(E, t, who) ==
    IF t = 0 THEN E
    ELSE LET E1 == Emit(E, Ev("cancel", None, None, t)) IN
         IF t = who THEN [E1 EXCEPT !.tasks[t].st = "cancelling"]
         ELSE IF E1.tasks[t].st = "armed" THEN [E1 EXCEPT !.tasks[t].st = "cancelled"]
         ELSE E1

\* self.timeout_task = asyncio.create_task(self._handle_timeout(timeout))
CreateTask(E, timeout) ==
    LET id == Len(E.tasks) + 1 IN
    Emit([E EXCEPT !.tasks = Append(@, [st |-> "armed", timeout |-> timeout]),
                   !.tt = id],
         Ev("arm", E.cur, None, id))

\* a mutation of ResetTimeout: handle_event returns without the reset
ResetNothing(E) == E

\* handle_event, "Reset timeout", after _check_handler_match returned True
ResetTimeout(E) ==
    [CreateTask(Cancel(E, E.tt, 0), states[E.cur].timeout) EXCEPT !.call.rearmed = TRUE]

\* where control goes when transition_to returns to the code that called it
Return(E, who, ret) ==
    IF ret = "match"
    THEN [Emit(ResetTimeout(Emit(E, Ev("matched", None, None, 0))),
               Ev("returned", "handle_event", None, 0)) EXCEPT !.pc = Idle]
    ELSE IF ret = "invalid"
    THEN [Emit(E, Ev("returned", "handle_event", None, 0)) EXCEPT !.pc = Idle]
    ELSE IF ret = "start"
    THEN [Emit(E, Ev("returned", "start", None, 0)) EXCEPT !.pc = Idle]
    ELSE E

\* transition_to, "Execute on_enter handlers", from the k-th name on.  The
\* pipeline task suspends in each registered handler it awaits.  A timeout
\* task runs the handlers that do not suspend (sus: those that do); at the
\* first one that suspends the pending CancelledError of its own cancel()
\* is thrown, which "except Exception" does not catch.  A timeout task
\* that runs is always self.timeout_task, so it is always cancelling here.
RECURSIVE RunOnEnter(_, _, _, _, _, _)
RunOnEnter(E, who, target, k, ret, sus) ==
    LET names == states[target].on_enter IN
    IF k > Len(names) THEN Return(E, who, ret)
    ELSE IF names[k] \notin Handlers THEN RunOnEnter(E, who, target, k + 1, ret, sus)
    ELSE IF who = 0
    THEN [Emit(E, Ev("enter", names[k], None, k))
            EXCEPT !.pc = [at |-> "enter", s |-> target, i |-> 0, k |-> k, ret |-> ret]]
    ELSE IF names[k] \in sus /\ E.tasks[who].st = "cancelling"
    THEN Emit(E, Ev("enter_abort", names[k], None, k))
    ELSE RunOnEnter(Emit(E, Ev("enter", names[k], None, k)), who, target, k + 1, ret, sus)

\* a mutation of EnterState: the state is entered and no timeout is armed
EnterStateNoArm(E, state_name, who) ==
    LET E1 == Cancel(E, E.tt, who)
        E2 == [E1 EXCEPT !.buf = <<>>, !.cur = state_name, !.call.rearmed = @ \/ who = 0]
    IN  Emit(E2, Ev("transition", state_name, E.cur, E.tt))

\* a mutation of EnterState: the buffer is not cleared
EnterStateKeepBuffer(E, state_name, who) ==
    LET E1 == Cancel(E, E.tt, who)
        E2 == [E1 EXCEPT !.cur = state_name, !.call.rearmed = @ \/ who = 0]
        E3 == CreateTask(E2, states[state_name].timeout)
    IN  Emit(E3, Ev("transition", state_name, E.cur, E.tt))

\* transition_to up to the on_enter loop: cancel, clear, set, arm
EnterState(E, state_name, who) ==
    LET E1 == Cancel(E, E.tt, who)
        E2 == [E1 EXCEPT !.buf = <<>>, !.cur = state_name, !.call.rearmed = @ \/ who = 0]
        E3 == CreateTask(E2, states[state_name].timeout)
    IN  Emit(E3, Ev("transition", state_name, E.cur, E.tt))

\* a mutation of transition_to: the timeout is cancelled before the name is looked up
TransitionCancelFirst(E, state_name, who, ret, sus) ==
    IF state_name \notin DOMAIN states
    THEN Return(Emit(Cancel(E, E.tt, who), Ev("unknown_state", state_name, None, 0)),
                who, ret)
    ELSE RunOnEnter(EnterState(E, state_name, who), who, state_name, 1, ret, sus)

transition_to(E, state_name, who, ret, sus) ==
    IF state_name \notin DOMAIN states
    THEN Return(Emit(E, Ev("unknown_state", state_name, None, 0)), who, ret)
    ELSE RunOnEnter(EnterState(E, state_name, who), who, state_name, 1, ret, sus)

----------------------------------------------------------------------------
(* handle_event and _check_handler_match *)

\* a mutation of AfterAction: a match without a next state empties the buffer
AfterActionClears(E, s, i) ==
    LET h == states[s].handlers[i] IN
    IF h.next_state /= None
    THEN transition_to(E, h.next_state, 0, "match", {})
    ELSE Return([E EXCEPT !.buf = <<>>], 0, "match")

\* _check_handler_match, "Transition to next state if specified", return True
AfterAction(E, s, i) ==
    LET h == states[s].handlers[i] IN
    IF h.next_state /= None
    THEN transition_to(E, h.next_state, 0, "match", {})
    ELSE Return(E, 0, "match")

\* await handler_func(input_str, **args): the pipeline task suspends
Invoke(E, s, i, arg) ==
    [Emit(E, Ev("invoke", states[s].handlers[i].handler, None, i))
       EXCEPT !.pc = [at |-> "bound", s |-> s, i |-> i, k |-> 0, ret |-> None],
              !.call.invoked = Append(@, [i |-> i, arg |-> arg, outcome |-> "pending"])]

\* a mutation of HandleInvalid: input that matches nothing is only buffered
HandleInvalidOnlyBuffer(E) ==
    Return(Emit(E, Ev("nomatch", None, None, 0)), 0, "invalid")

\* handle_event, "Handle invalid input", after the loop found no match
HandleInvalid(E) ==
    LET E1 == Emit(E, Ev("nomatch", None, None, 0)) IN
    IF states[E1.cur].on_invalid /= None
    THEN transition_to(E1, states[E1.cur].on_invalid, 0, "invalid", {})
    ELSE Return(E1, 0, "invalid")

\* a mutation of HandlerNotFound: the callback of the action is awaited all the same
HandlerNotFoundInvoke(E, s, i) ==
    Invoke(Emit(E, Ev("handler_not_found", states[s].handlers[i].handler, None, i)),
           s, i, [val |-> <<>>, str |-> E.buf])

\* _check_handler_match when self.handlers.get(action) is None: "Handler not
\* found" is logged, nothing is called, and the match stands
HandlerNotFound(E, s, i) ==
    AfterAction(Emit(E, Ev("handler_not_found", states[s].handlers[i].handler, None, i)),
                s, i)

RECURSIVE EvalFrom(_, _, _)

\* input_str as the action gets it: "Remove terminator for action processing"
ActionInput(h, input_str) ==
    IF h.terminator /= <<>> THEN StripTerminator(input_str, h.terminator) ELSE input_str

\* the i-th handler of state s refused the buffer in its transform
TransformFailed(E, s, i) ==
    [Emit(E, Ev("transform_fail", states[s].handlers[i].transform, None, i))
       EXCEPT !.call.failed = Append(@, ActionInput(states[s].handlers[i], E.buf))]

\* a mutation of TransformRaised: the next state is taken all the same
TransformRaisedTakeNext(E, s, i) == AfterAction(TransformFailed(E, s, i), s, i)

\* _check_handler_match when transformer(input_str) raises: "except
\* Exception" returns False and the loop of handle_event goes on
TransformRaised(E, s, i) == EvalFrom(TransformFailed(E, s, i), s, i + 1)

\* the loop of handle_event over the handlers of state s, from the i-th on,
\* with _check_handler_match for each
EvalFrom(E, s, i) ==
    IF i > Len(states[s].handlers) THEN HandleInvalid(E)
    ELSE
    LET h == states[s].handlers[i]
        input_str == E.buf
    IN
    IF ~Matches(h.pattern, input_str) THEN EvalFrom(E, s, i + 1)
    ELSE IF h.terminator /= <<>> /\ ~EndsWith(input_str, h.terminator)
    THEN EvalFrom(E, s, i + 1)
    ELSE
    LET trimmed == ActionInput(h, input_str)
        E1 == [Emit(E, Ev("pattern_match", None, None, i)) EXCEPT !.call.pmatched = TRUE]
    IN
    IF h.handler = None THEN AfterAction(E1, s, i)
    ELSE IF h.handler \notin Handlers
    THEN HandlerNotFound(E1, s, i)
    ELSE IF h.transform /= None /\ h.transform \in Transformers
    THEN LET r == ApplyTransform(h.transform, trimmed) IN
         IF r.ok THEN Invoke(E1, s, i, [val |-> <<r.val>>, str |-> <<>>])
         ELSE TransformRaised(E1, s, i)
    ELSE Invoke(E1, s, i, [val |-> <<>>, str |-> trimmed])

\* handle_event(event_type, value)
handle_event(E, value) ==
    IF E.cur = None
    THEN Emit(E, Ev("no_current_state", None, None, 0))
    ELSE EvalFrom([E EXCEPT !.buf = Append(@, value),
                            !.call = [NoCall EXCEPT !.sym = value]], E.cur, 1)

\* a mutation of BoundReturned: evaluation goes on after a handler that succeeded
BoundReturnedGoOn(E, outcome) ==
    LET E1 == [E EXCEPT !.call.invoked[Len(E.call.invoked)].outcome = outcome] IN
    EvalFrom(E1, E.pc.s, E.pc.i + 1)

\* a mutation of BoundReturned: the next state is taken after a handler that raised
BoundReturnedTakeNext(E, outcome) ==
    LET E1 == [E EXCEPT !.call.invoked[Len(E.call.invoked)].outcome = outcome] IN
    IF outcome = "ok" THEN AfterAction(E1, E.pc.s, E.pc.i)
    ELSE AfterAction(Emit(E1, Ev("handler_raised", None, None, E.pc.i)), E.pc.s, E.pc.i)

\* the awaited bound handler returns ("ok") or raises ("raise"): the
\* exception is caught in _check_handler_match, which returns False
BoundReturned(E, outcome) ==
    LET E1 == [E EXCEPT !.call.invoked[Len(E.call.invoked)].outcome = outcome] IN
    IF outcome = "ok" THEN AfterAction(E1, E.pc.s, E.pc.i)
    ELSE EvalFrom(Emit(E1, Ev("handler_raised", None, None, E.pc.i)), E.pc.s, E.pc.i + 1)

\* a mutation of CanExpire: a task runs on after cancel() was called on it
CanExpireCancelled(t) == tasks[t].st \in {"armed", "cancelled"}

\* await asyncio.sleep(timeout / 1000) returns only in a task that was not
\* cancelled; a cancelled one gets CancelledError, "Normal cancellation"
CanExpire(t) == tasks[t].st = "armed"

\* _handle_timeout after the sleep, in task t
_handle_timeout(E, t, sus) ==
    LET E1 == Emit([E EXCEPT !.tasks[t].st = "running"], Ev("expired", E.cur, None, t))
        E2 == IF E1.cur /= None /\ states[E1.cur].on_timeout /= None
              THEN transition_to(E1, states[E1.cur].on_timeout, t, "timeout", sus)
              ELSE E1
    IN  [E2 EXCEPT !.tasks[t].st = "done"]

----------------------------------------------------------------------------
(* The state machine *)

\* a message of the event stream; digit is None except in a dtmf event
Msg(type, digit) == [type |-> type, digit |-> digit]

\* PhoneManager.__init__, "Track phone state"; nothing is connected
PipeNew ==
    /\ off_hook = FALSE
    /\ running = FALSE
    /\ ws = None
    /\ reader = "none"
    /\ link = None
    /\ queue = <<>>

\* a sequence that parse_sequence has not been called on
Unparsed == [name |-> "unparsed"]

\* CommandParser.__init__: nothing parsed yet
ParserNew == events = <<>> /\ command = Unparsed

\* no call of set_state yet
NotCalled == [request |-> None, raised |-> FALSE]

\* StateManager.__init__
StateManagerNew ==
    /\ current_state = "idle"
    /\ previous_state = None
    /\ state_changes = <<>>
    /\ set_state_raised = NotCalled

\* TimerManager.__init__: no timer yet, the sweep task about to run
TimerNew ==
    /\ timers = <<>>
    /\ now = 0
    /\ sweep_at = 0
    /\ tlog = <<>>

Init ==
    /\ doc \in Docs
    /\ engine = "unloaded"
    /\ states = <<>>
    /\ cur = None
    /\ buf = <<>>
    /\ tt = 0
    /\ tasks = <<>>
    /\ pc = Idle
    /\ call = NoCall
    /\ evs = <<>>
    /\ PipeNew
    /\ TimerNew
    /\ ParserNew
    /\ StateManagerNew
    /\ service = "up"

Commit(E) ==
    /\ cur' = E.cur
    /\ buf' = E.buf
    /\ tt' = E.tt
    /\ tasks' = E.tasks
    /\ pc' = E.pc
    /\ call' = E.call
    /\ evs' = E.evs

\* DTMFStateMachine.__init__
Construct ==
    /\ engine = "unloaded"
    /\ LET r == _load_config(doc) IN
       /\ engine' = IF r.ok THEN "ready" ELSE "failed"
       /\ states' = r.states
    /\ UNCHANGED <<parser, sm, tm, doc, cur, buf, tt, tasks, pc, call, evs, pipe>>

\* room for the tasks one step of the pipeline task can create
Room(n) == Len(tasks) + n <= MaxTasks

\* start(), called on the engine directly
Start ==
    /\ engine = "ready"
    /\ pc.at = "idle"
    /\ Room(1)
    /\ Commit(transition_to([Engine EXCEPT !.call = NoCall], "initial", 0, "start", {}))
    /\ UNCHANGED <<parser, sm, tm, doc, engine, states, pipe>>

\* handle_event(event_type, value), called on the engine directly
HandleEvent(value) ==
    /\ engine = "ready"
    /\ pc.at = "idle"
    /\ Len(buf) < MaxBuf
    /\ Room(2)
    /\ Commit(handle_event(Engine, value))
    /\ UNCHANGED <<parser, sm, tm, doc, engine, states, pipe>>

\* the bound handler awaited by _check_handler_match completes
ResumeBound(outcome) ==
    /\ pc.at = "bound"
    /\ Room(2)
    /\ Commit(BoundReturned(Engine, outcome))
    /\ UNCHANGED <<parser, sm, tm, doc, engine, states, pipe>>

\* a mutation of ResumeEnter: transition_to returns after the first on-enter handler
ResumeEnterOnlyFirst ==
    /\ pc.at = "enter"
    /\ Room(1)
    /\ Commit(RunOnEnter(Engine, 0, pc.s, Len(states[pc.s].on_enter) + 1, pc.ret, {}))
    /\ UNCHANGED <<parser, sm, tm, doc, engine, states, pipe>>

\* the on-enter handler awaited by transition_to completes (or raises: the
\* exception is logged and the loop goes on)
ResumeEnter ==
    /\ pc.at = "enter"
    /\ Room(1)
    /\ Commit(RunOnEnter(Engine, 0, pc.s, pc.k + 1, pc.ret, {}))
    /\ UNCHANGED <<parser, sm, tm, doc, engine, states, pipe>>

\* the sleep of timeout task t elapses and the task runs
Expire(t, sus) ==
    /\ t \in 1 .. Len(tasks)
    /\ CanExpire(t)
    /\ Room(1)
    /\ Commit(_handle_timeout(Engine, t, sus))
    /\ UNCHANGED <<parser, sm, tm, doc, engine, states, pipe>>

\* the registered handlers an on_enter list can name
EnterHandlers == { "timer_manager.announce_timers", "home_assistant.lights_on" }

Next ==
    \/ Construct
    \/ Start
    \/ \E value \in Sym : HandleEvent(value)
    \/ \E outcome \in {"ok", "raise"} : ResumeBound(outcome)
    \/ ResumeEnter
    \/ \E t \in 1 .. MaxTasks : \E sus \in SUBSET EnterHandlers : Expire(t, sus)

Spec == Init /\ [][Next]_vars

----------------------------------------------------------------------------
(* The phone event pipeline: PhoneManager owns the engine, reads the event *)
(* stream in one task (_event_loop) and hands each event to                *)
(* handle_phone_event, which it awaits before the next recv().             *)

\* a dwell timeout that leads back to "initial", which has an on_enter handler
DocIdleAnnounce ==
    [ default_timeout |-> <<5000>>,
      states |->
        [ initial |-> StateCfg(
            << HandlerCfg(<<Cls(Digits, 1, 1)>>, <<>>,
                          "timer_manager.create_timer", "minutes_from_digits", None) >>,
            <<>>, <<"timer_manager.announce_timers">>, "initial", None) ] ]

\* the tables the pipeline is explored with
PipeDocs == { DocMain, DocGreeting, DocIdleAnnounce }

\* the digits of the dtmf events of the stream
PipeSym == { "9", "*" }

\* what the stream carries: the three event types, and a payload that
\* json.loads refuses ("bad")
Messages ==
    { Msg("off_hook", None), Msg("on_hook", None), Msg("bad", None) }
      \cup { Msg("dtmf", d) : d \in PipeSym }

PipeInit ==
    /\ doc \in PipeDocs
    /\ engine = "unloaded"
    /\ states = <<>>
    /\ cur = None
    /\ buf = <<>>
    /\ tt = 0
    /\ tasks = <<>>
    /\ pc = Idle
    /\ call = NoCall
    /\ evs = <<>>
    /\ PipeNew
    /\ TimerNew
    /\ ParserNew
    /\ StateManagerNew
    /\ service \in {"up", "down"}

\* a mutation of Connect: the reader is started whether or not the stream opened
ConnectStartsReaderAnyway ==
    /\ engine = "ready"
    /\ reader = "none"
    /\ link = None
    /\ ws' = IF service = "up" THEN "open" ELSE None
    /\ link' = IF service = "up" THEN "up" ELSE "refused"
    /\ running' = TRUE
    /\ reader' = "recv"
    /\ UNCHANGED <<parser, sm, tm, doc, engine, states, cur, buf, tt, tasks, pc, call, evs,
                   off_hook, service, queue>>

\* connect(), called once at startup; websockets.connect raising is caught
\* ("Failed to connect to phone API", "Running in degraded mode") and
\* connect returns: the stream is "refused"
Connect ==
    /\ engine = "ready"
    /\ reader = "none"
    /\ link = None
    /\ IF service = "up"
       THEN /\ ws' = "open"
            /\ link' = "up"
            /\ running' = TRUE
            /\ reader' = "recv"
       ELSE /\ link' = "refused"
            /\ UNCHANGED <<ws, running, reader>>
    /\ UNCHANGED <<parser, sm, tm, doc, engine, states, cur, buf, tt, tasks, pc, call, evs,
                   off_hook, service, queue>>

\* the phone API server stops: a stream that is up closes
ServiceDown ==
    /\ service = "up"
    /\ service' = "down"
    /\ link' = IF link = "up" THEN "closed" ELSE link
    /\ UNCHANGED <<parser, sm, tm, doc, engine, states, cur, buf, tt, tasks, pc, call, evs,
                   off_hook, running, ws, reader, queue>>

\* the phone API server is back
ServiceUp ==
    /\ service = "down"
    /\ service' = "up"
    /\ UNCHANGED <<parser, sm, tm, doc, engine, states, cur, buf, tt, tasks, pc, call, evs,
                   off_hook, running, ws, reader, link, queue>>

\* the server sends an event on the stream
Send(m) ==
    /\ link = "up"
    /\ Len(queue) < MaxQueue
    /\ queue' = Append(queue, m)
    /\ UNCHANGED <<parser, sm, tm, doc, engine, states, cur, buf, tt, tasks, pc, call, evs,
                   off_hook, running, ws, reader, service, link>>

\* a mutation of CanReceive: a message is taken while the last one is being handled
CanReceiveWhileBusy == reader \in {"recv", "busy"} /\ queue /= <<>>

\* message = await self._ws.recv() returns: the loop is at recv() and the
\* stream holds a message
CanReceive == reader = "recv" /\ queue /= <<>>

\* recv() hands out the oldest message
Take == queue' = Tail(queue)

\* room for the tasks one step of the pipeline's reader can create
PipeRoom(n) == Len(tasks) + n <= MaxPipeTasks

\* await self.handle_phone_event(event): the loop is back at recv() once
\* the engine call has returned
Resumed == reader' = IF pc'.at = "idle" THEN "recv" ELSE "busy"

\* a mutation of OffHook: the line is marked off-hook and the engine is not started
OffHookOnlyMarks ==
    /\ CanReceive
    /\ Head(queue).type = "off_hook"
    /\ Take
    /\ off_hook' = TRUE
    /\ UNCHANGED <<parser, sm, tm, doc, engine, states, cur, buf, tt, tasks, pc, call, evs,
                   running, ws, reader, service, link>>

\* an off_hook event: _handle_off_hook
OffHook ==
    /\ CanReceive
    /\ Head(queue).type = "off_hook"
    /\ PipeRoom(1)
    /\ Take
    /\ off_hook' = TRUE
    /\ Commit(transition_to([Engine EXCEPT !.call = NoCall], "initial", 0, "start", {}))
    /\ Resumed
    /\ UNCHANGED <<parser, sm, tm, doc, engine, states, running, ws, service, link>>

\* a mutation of OnHook: hanging up also empties the engine's buffer
OnHookClearsBuffer ==
    /\ CanReceive
    /\ Head(queue).type = "on_hook"
    /\ Take
    /\ off_hook' = FALSE
    /\ buf' = <<>>
    /\ UNCHANGED <<parser, sm, tm, doc, engine, states, cur, tt, tasks, pc, call, evs,
                   running, ws, reader, service, link>>

\* an on_hook event: _handle_on_hook
OnHook ==
    /\ CanReceive
    /\ Head(queue).type = "on_hook"
    /\ Take
    /\ off_hook' = FALSE
    /\ UNCHANGED <<parser, sm, tm, doc, engine, states, cur, buf, tt, tasks, pc, call, evs,
                   running, ws, reader, service, link>>

\* a mutation of Forwards: digits go to the engine whatever the hook state
ForwardsAlways == TRUE

\* _handle_dtmf, "if not self.off_hook: ... return"
Forwards == off_hook

\* a dtmf event: _handle_dtmf
Dtmf ==
    /\ CanReceive
    /\ Head(queue).type = "dtmf"
    /\ Forwards => (Len(buf) < MaxBuf /\ PipeRoom(2))
    /\ Take
    /\ IF Forwards
       THEN /\ Commit(handle_event(Engine, Head(queue).digit))
            /\ Resumed
       ELSE /\ evs' = <<Ev("discarded", Head(queue).digit, None, 0)>>
            /\ UNCHANGED <<cur, buf, tt, tasks, pc, call, reader>>
    /\ UNCHANGED <<parser, sm, tm, doc, engine, states, off_hook, running, ws, service, link>>

\* a mutation of BadPayload: the reader gives the connection up
BadPayloadDisconnects ==
    /\ CanReceive
    /\ Head(queue).type = "bad"
    /\ Take
    /\ reader' = "sleep"
    /\ running' = FALSE
    /\ ws' = None
    /\ UNCHANGED <<parser, sm, tm, doc, engine, states, cur, buf, tt, tasks, pc, call, evs,
                   off_hook, service, link>>

\* json.loads(message) raises: "Error in event loop", await asyncio.sleep(1)
BadPayload ==
    /\ CanReceive
    /\ Head(queue).type = "bad"
    /\ Take
    /\ reader' = "sleep"
    /\ UNCHANGED <<parser, sm, tm, doc, engine, states, cur, buf, tt, tasks, pc, call, evs,
                   off_hook, running, ws, service, link>>

\* the sleep is over: "while self._running and self._ws"
Wake ==
    /\ reader = "sleep"
    /\ reader' = IF running /\ ws /= None THEN "recv" ELSE "ended"
    /\ UNCHANGED <<parser, sm, tm, doc, engine, states, cur, buf, tt, tasks, pc, call, evs,
                   off_hook, running, ws, service, link, queue>>

\* a mutation of ReceiveClosed: the reader backs off and reads again
ReceiveClosedRetries ==
    /\ reader = "recv"
    /\ queue = <<>>
    /\ link = "closed"
    /\ reader' = "sleep"
    /\ UNCHANGED <<parser, sm, tm, doc, engine, states, cur, buf, tt, tasks, pc, call, evs,
                   off_hook, running, ws, service, link, queue>>

\* recv() raises ConnectionClosed: "WebSocket connection closed",
\* await self.disconnect(), break
ReceiveClosed ==
    /\ reader = "recv"
    /\ queue = <<>>
    /\ link = "closed"
    /\ running' = FALSE
    /\ ws' = None
    /\ reader' = "ended"
    /\ UNCHANGED <<parser, sm, tm, doc, engine, states, cur, buf, tt, tasks, pc, call, evs,
                   off_hook, service, link, queue>>

\* the bound handler awaited below handle_phone_event completes
PipeResumeBound(outcome) ==
    /\ reader = "busy"
    /\ pc.at = "bound"
    /\ PipeRoom(2)
    /\ Commit(BoundReturned(Engine, outcome))
    /\ Resumed
    /\ UNCHANGED <<parser, sm, tm, doc, engine, states, off_hook, running, ws, service, link, queue>>

\* the on-enter handler awaited below handle_phone_event completes
PipeResumeEnter ==
    /\ reader = "busy"
    /\ pc.at = "enter"
    /\ PipeRoom(1)
    /\ Commit(RunOnEnter(Engine, 0, pc.s, pc.k + 1, pc.ret, {}))
    /\ Resumed
    /\ UNCHANGED <<parser, sm, tm, doc, engine, states, off_hook, running, ws, service, link, queue>>

\* the sleep of timeout task t elapses while the pipeline runs
PipeExpire(t, sus) ==
    /\ PipeRoom(1)
    /\ Expire(t, sus)

PipeNext ==
    \/ Construct
    \/ Connect
    \/ ServiceDown
    \/ ServiceUp
    \/ \E m \in Messages : Send(m)
    \/ OffHook
    \/ OnHook
    \/ Dtmf
    \/ BadPayload
    \/ Wake
    \/ ReceiveClosed
    \/ \E outcome \in {"ok", "raise"} : PipeResumeBound(outcome)
    \/ PipeResumeEnter
    \/ \E t \in 1 .. MaxPipeTasks : \E sus \in SUBSET EnterHandlers : PipeExpire(t, sus)

PipeSpec == PipeInit /\ [][PipeNext]_vars

----------------------------------------------------------------------------
(* Properties *)

HasEv(e) == \E j \in 1 .. Len(evs) : evs[j].e = e

\* the timeout tasks that are pending: sleeping, cancel() never called on them
Armed == { t \in 1 .. Len(tasks) : tasks[t].st = "armed" }

\* the handle is the task created last, it is armed, and it sleeps for the
\* dwell time of the current state
FreshTimeoutFor(s) ==
    /\ tt = Len(tasks)
    /\ tt /= 0
    /\ tasks[tt].st = "armed"
    /\ tasks[tt].timeout = states[s].timeout

\* C1: at most one dwell-timeout task is armed and not cancelled, in every
\* state reached by start, handle_event, transitions and timeout expiries.
C1_AtMostOneTimeout == Cardinality(Armed) <= 1

\* C1 witness: tasks were cancelled, one expired, and exactly one is armed
C1_Witness ==
    /\ Cardinality(Armed) = 1
    /\ \E t \in 1 .. Len(tasks) : tasks[t].st = "cancelled"
    /\ \E t \in 1 .. Len(tasks) : tasks[t].st = "done"
    /\ HasEv("matched")

\* the last step was a handle_event call that appended a symbol which no
\* handler of the current state matched
PlainNoMatch ==
    /\ HasEv("nomatch")
    /\ ~HasEv("pattern_match")
    /\ ~HasEv("handler_raised")

\* C2 as stated: when no handler matches the buffer the engine only
\* buffers; there is no transition, on-invalid target or not.
C2_NoMatchOnlyBuffers ==
    PlainNoMatch => ~HasEv("transition") /\ buf /= <<>> /\ buf[Len(buf)] = call.sym

\* C2 amended: when no handler matches, the engine only buffers (state,
\* buffer with the new symbol, timeout task all kept) if the current state
\* names no declared on-invalid target, and otherwise transitions to that
\* target with the buffer cleared and a new timeout armed.
C2_NoMatchFollowsOnInvalid ==
    [][ PlainNoMatch' =>
          IF states[cur].on_invalid \in DOMAIN states
          THEN /\ cur' = states[cur].on_invalid
               /\ buf' = <<>>
               /\ tt' = Len(tasks) + 1
               /\ tasks'[tt'].st = "armed"
               /\ tt /= 0 => tasks'[tt].st \in {"cancelled", "done"}
          ELSE /\ cur' = cur
               /\ buf' = Append(buf, call'.sym)
               /\ tt' = tt
               /\ tasks' = tasks ]_vars

\* C2 witness: a non-matching symbol was buffered behind an earlier one
C2_Witness == PlainNoMatch /\ ~HasEv("transition") /\ Len(buf) >= 2

\* C3 as stated: after a transform failure no bound handler is invoked and
\* no transition of any kind occurs.
C3_TransformFailureStays ==
    HasEv("transform_fail") => ~HasEv("transition") /\ ~HasEv("invoke")

\* the buffer the handlers are matched against in the step that leads to
\* the primed state
EvaluatedBuffer == IF pc.at = "idle" THEN Append(buf, call'.sym) ELSE buf

\* C3 amended: when a handler's pattern matches and its transform fails,
\* its bound handler is not invoked and its next-state is not taken; the
\* handler counts as not matching, so evaluation goes on with the later
\* handlers, and when none of them matches the engine transitions to the
\* declared on-invalid target of the current state, or else stays as it is
\* (state, buffer and timeout task kept).
C3_TransformFailureIsNoMatch ==
    [][ \A j \in 1 .. Len(evs') :
          evs'[j].e = "transform_fail" =>
            /\ \A m \in 1 .. Len(evs') :
                  evs'[m].e = "invoke" => evs'[m].n /= evs'[j].n
            /\ j < Len(evs')
            /\ evs'[j + 1].e \in {"pattern_match", "nomatch"}
            /\ evs'[j + 1].e = "pattern_match" => evs'[j + 1].n > evs'[j].n
            /\ evs'[j + 1].e = "nomatch" =>
                  IF states[cur].on_invalid \in DOMAIN states
                  THEN cur' = states[cur].on_invalid /\ buf' = <<>>
                  ELSE /\ cur' = cur
                       /\ buf' = EvaluatedBuffer
                       /\ tt' = tt
                       /\ tasks' = tasks ]_vars

\* C3 witness: digits 99 and the terminator were fed to the 60-85 transform
C3_Witness ==
    /\ call.failed = << <<"9", "9">> >>
    /\ call.sym = "#"
    /\ call.invoked = <<>>
    /\ \E j \in 1 .. Len(evs) :
          evs[j].e = "transform_fail" /\ evs[j].a = "temperature_from_digits"

\* C4 as stated: a handle_event call in which a pattern matched has
\* cancelled the timeout and armed a new one by the time it returns.
C4_MatchAlwaysResets ==
    (HasEv("returned") /\ evs[Len(evs)].a = "handle_event" /\ call.pmatched)
        => call.rearmed

\* C4 amended: when a handler's pattern matches and its action completes
\* without raising (bound handler returned, or is absent or unregistered),
\* handle_event cancels the timeout task and arms a new one for the current
\* state right before it returns; a handler that raised or whose transform
\* failed counts as not matching and causes no reset.
C4_CompletedMatchResets ==
    HasEv("matched") =>
        /\ Len(evs) >= 4
        /\ evs[Len(evs)].e = "returned"
        /\ evs[Len(evs) - 1].e = "arm"
        /\ evs[Len(evs) - 1].n = tt
        /\ evs[Len(evs) - 2].e = "cancel"
        /\ evs[Len(evs) - 2].n < tt
        /\ tasks[evs[Len(evs) - 2].n].st \in {"cancelled", "done"}
        /\ evs[Len(evs) - 3].e = "matched"
        /\ FreshTimeoutFor(cur)
        /\ Armed = {tt}

\* C4 witness: the bound handler returned, no next-state, timeout was reset
C4_Witness ==
    /\ HasEv("matched")
    /\ ~HasEv("transition")
    /\ Len(call.invoked) = 1
    /\ call.invoked[1].outcome = "ok"
    /\ buf /= <<>>

\* C5 as stated: at most one bound handler is invoked in one evaluation.
C5_AtMostOneInvoked == Len(call.invoked) <= 1

\* C5 amended: handlers are tried in declared order and the evaluation
\* stops at the first handler whose pattern matches and whose action
\* completes without raising; every bound handler invoked before the last
\* one raised, and nothing is invoked after one that returned normally.
C5_FirstCompletedMatchWins ==
    \A j \in 1 .. Len(call.invoked) - 1 :
        /\ call.invoked[j].outcome = "raise"
        /\ call.invoked[j].i < call.invoked[j + 1].i

\* C5 witness: a second handler was invoked after the first raised
C5_Witness ==
    /\ Len(call.invoked) = 2
    /\ call.invoked[2].outcome = "ok"
    /\ pc.at = "idle"

\* C6: every transition to a declared state, self-transitions included,
\* leaves the buffer empty, the target current, the previous timeout task
\* cancelled and a newly created one armed for the target state.
C6_TransitionClearsAndArms ==
    \A j \in 1 .. Len(evs) :
        evs[j].e = "transition" =>
            /\ buf = <<>>
            /\ cur = evs[j].a
            /\ FreshTimeoutFor(evs[j].a)
            /\ Armed = {tt}
            /\ evs[j].n /= 0 => tasks[evs[j].n].st \in {"cancelled", "done"}

\* C6 witness: a matching handler took the engine from a state to itself
C6_Witness ==
    /\ HasEv("matched")
    /\ call.sym /= None
    /\ \E j \in 1 .. Len(evs) : evs[j].e = "transition" /\ evs[j].a = evs[j].b

\* C7 as stated: every transition runs the on-enter handlers of its target
\* to completion; the cancel of the timeout being left never aborts them.
C7_OnEnterRunsToCompletion == ~HasEv("enter_abort")

\* C8 as stated: loading (of a table that has a default timeout) succeeds
\* exactly when every reference names a declared state and every handler
\* has a pattern.
C8_LoadIffReferencesDeclared ==
    (engine /= "unloaded" /\ doc.default_timeout /= <<>>) =>
        ( engine = "ready" <=>
            /\ \A r \in References(doc) : r \in DOMAIN doc.states
            /\ \A s \in DOMAIN doc.states : \A i \in 1 .. Len(doc.states[s].handlers) :
                  doc.states[s].handlers[i].has_pattern )

\* C8 amended: loading a table that has a default timeout succeeds exactly
\* when every handler has a pattern; references to undeclared states are
\* not checked, and on failure no engine is created.
C8_LoadIffPatterns ==
    /\ (engine /= "unloaded" /\ doc.default_timeout /= <<>>) =>
          ( engine = "ready" <=>
              \A s \in DOMAIN doc.states : \A i \in 1 .. Len(doc.states[s].handlers) :
                  doc.states[s].handlers[i].has_pattern )
    /\ engine = "failed" => cur = None /\ tasks = <<>> /\ states = <<>>

\* C8 witness: a table with undeclared references was loaded and started
C8_Witness ==
    /\ engine = "ready"
    /\ \E r \in References(doc) : r \notin DOMAIN doc.states
    /\ cur = "initial"

\* C9: only a timeout task that was never cancelled runs past its sleep;
\* when it does, the engine goes to the declared on-timeout target of the
\* current state, and stays as it is (state, buffer, handle) without one.
C9_OnlyUncancelledExpiryActs ==
    [][ \A j \in 1 .. Len(evs') :
          evs'[j].e = "expired" =>
            /\ tasks[evs'[j].n].st = "armed"
            /\ IF states[cur].on_timeout \in DOMAIN states
               THEN cur' = states[cur].on_timeout /\ buf' = <<>>
               ELSE cur' = cur /\ buf' = buf /\ tt' = tt ]_vars

\* C9 witness: a timeout expired and moved the engine while an earlier,
\* cancelled one stayed without effect
C9_Witness ==
    /\ HasEv("expired")
    /\ HasEv("transition")
    /\ \E t \in 1 .. Len(tasks) : tasks[t].st = "cancelled"

\* a handle_event call is suspended in a bound or an on-enter handler
InHandleEvent == pc.at = "bound" \/ (pc.at = "enter" /\ pc.ret \in {"match", "invalid"})

\* C10 as stated: while a handle_event call is suspended, no other task
\* changes the current state, the buffer or the timeout handle.
C10_NoMutationDuringHandleEvent ==
    [][ (InHandleEvent /\ HasEv("expired")') => UNCHANGED <<cur, buf, tt>> ]_vars

\* C11 (as stated): when a bound handler raises, the current state is left
\* as it was: the step in which the exception is caught makes no transition,
\* neither to a next state nor to the on-invalid state.
C11_RaiseLeavesState == HasEv("handler_raised") => ~HasEv("transition")

\* C11 (amended): the exception of a bound handler is caught and counts as a
\* failed match.  The next state of the handler that raised is not taken;
\* the handlers after it are evaluated against the same buffer; when none
\* of them matches, the on-invalid state of the current state is entered if
\* it is declared, and otherwise the call returns with the state, the buffer
\* and the dwell timeout as they were.
C11_RaiseIsFailedMatch ==
    [][ (pc.at = "bound" /\ Len(evs') >= 2 /\ evs'[1].e = "handler_raised") =>
          /\ evs'[1].n = pc.i
          /\ \/ evs'[2].e = "pattern_match" /\ evs'[2].n > pc.i
             \/ /\ evs'[2].e = "nomatch"
                /\ IF states[cur].on_invalid \in DOMAIN states
                   THEN /\ cur' = states[cur].on_invalid
                        /\ buf' = <<>>
                        /\ evs'[Len(evs')].e \in {"transition", "enter", "returned"}
                   ELSE /\ UNCHANGED <<cur, buf, tt, tasks>>
                        /\ pc' = Idle
                        /\ evs'[Len(evs')] = Ev("returned", "handle_event", None, 0) ]_vars

\* a bound handler raised, nothing after it matched, and the state has no
\* on-invalid state: the call returned with the buffer kept
C11_Witness ==
    /\ Len(evs) >= 2 /\ evs[1].e = "handler_raised" /\ evs[2].e = "nomatch"
    /\ ~HasEv("transition")
    /\ pc = Idle /\ buf /= <<>>

\* the handler whose bound function the pipeline task is suspended in
BoundHandler == states[pc.s].handlers[pc.i]

\* C12 (as stated): an action that names an unregistered handler or an
\* unregistered transformer invokes no callback.
C12_UnregisteredInvokesNothing ==
    /\ pc.at = "bound" => BoundHandler.transform \in Transformers \cup {None}
    /\ HasEv("handler_not_found") => ~HasEv("invoke")

\* C12 (amended): an action whose handler is not registered invokes no
\* callback, neither transformer nor handler, and the match stands (the
\* next state is taken and the call goes on to its timeout reset).  An
\* action whose handler is registered and whose transformer is not skips
\* the transform and invokes the handler with the untransformed buffer
\* (terminator stripped).
C12_UnregisteredHandlerSkippedTransformBypassed ==
    /\ \A j \in 1 .. Len(evs) : evs[j].e = "handler_not_found" =>
          /\ ~\E m \in 1 .. Len(evs) : evs[m].e = "invoke" /\ evs[m].n = evs[j].n
          /\ ~\E m \in 1 .. Len(call.invoked) : call.invoked[m].i = evs[j].n
          /\ HasEv("matched") \/ (pc.at = "enter" /\ pc.ret = "match")
    /\ (pc.at = "bound" /\ HasEv("invoke")
        /\ BoundHandler.transform \notin Transformers \cup {None}) =>
          call.invoked[Len(call.invoked)].arg =
            [val |-> <<>>,
             str |-> SubSeq(buf, 1, Len(buf) - Len(BoundHandler.terminator))]

\* the call met an unregistered handler name and went on to the next state
\* of that handler, where it awaits an on-enter handler
C12_Witness ==
    /\ HasEv("handler_not_found") /\ HasEv("transition")
    /\ pc.at = "enter" /\ pc.ret = "match" /\ call.invoked = <<>>

\* a registered handler was invoked past its unregistered transformer
C12_WitnessTransformer ==
    /\ pc.at = "bound" /\ HasEv("invoke")
    /\ BoundHandler.transform \notin Transformers \cup {None}

\* C13: a transition_to whose state name is not declared leaves the current
\* state, the buffer and the timeout task as they were.  Within the step
\* that makes the call nothing is cancelled or armed, except by the timeout
\* reset of handle_event after the match has been established, and the
\* only task that changes is the one whose own expiry made the call.
C13_UndeclaredTransitionChangesNothing ==
    [][ \A j \in 1 .. Len(evs') : evs'[j].e = "unknown_state" =>
          /\ cur' = cur
          /\ buf' = IF evs'[1].e = "expired" THEN buf ELSE EvaluatedBuffer
          /\ ~\E m \in 1 .. Len(evs') : evs'[m].e = "transition"
          /\ \A m \in 1 .. Len(evs') : evs'[m].e \in {"cancel", "arm"} =>
                \E q \in j + 1 .. m - 1 : evs'[q].e = "matched"
          /\ (~\E q \in 1 .. Len(evs') : evs'[q].e = "matched") =>
                /\ tt' = tt
                /\ Len(tasks') = Len(tasks)
                /\ \A t \in 1 .. Len(tasks) :
                      \/ tasks'[t] = tasks[t]
                      \/ evs'[1] = Ev("expired", cur, None, t) /\ tasks'[t].st = "done" ]_vars

\* handle_event called transition_to with an undeclared on-invalid name:
\* the state, the buffer and the armed timeout are still there
C13_Witness ==
    /\ HasEv("unknown_state") /\ HasEv("nomatch")
    /\ cur = "initial" /\ buf /= <<>>
    /\ tt /= 0 /\ tasks[tt].st = "armed"

\* C14: cancelling the old timeout and arming the new one are one
\* uninterrupted piece of code, in transition_to and in the timeout reset of
\* handle_event.  So wherever the tasks are suspended, the timeout handle of
\* an engine that has a current state is never a task that cancel() was
\* called on, and every cancel() made in the last step was followed at once
\* by the arming of the next timeout.
C14_NeverCancelledWithoutSuccessor ==
    /\ cur /= None => tt /= 0
    /\ tt /= 0 => tasks[tt].st \in {"armed", "done"}
    /\ \A j \in 1 .. Len(evs) : evs[j].e = "cancel" =>
          /\ j < Len(evs)
          /\ evs[j + 1].e = "arm"
          /\ evs[j + 1].n > evs[j].n
          /\ evs[j].n /= tt

\* a state was entered with the old timeout cancelled, and the task that
\* entered it is suspended in an on-enter handler: the new timeout is armed
C14_Witness ==
    /\ pc.at = "enter"
    /\ HasEv("cancel") /\ HasEv("transition")
    /\ \E t \in 1 .. Len(tasks) : tasks[t].st = "cancelled"
    /\ buf = <<>>
    /\ FreshTimeoutFor(cur)

\* the first registered on-enter handler after the k-th, 0 when there is none
NextRegistered(names, k) ==
    LET later == { m \in k + 1 .. Len(names) : names[m] \in Handlers } IN
    IF later = {} THEN 0 ELSE CHOOSE m \in later : \A q \in later : m <= q

\* C15: start() enters "initial" in this order.  When its first on-enter
\* handler begins, the buffer is already empty and the dwell timeout of
\* "initial" is already armed; from there start() begins exactly the next
\* declared handler each time the one it awaits completes, and returns
\* only after the last one.
C15_StartOrder ==
    [][ /\ (pc.at = "idle" /\ pc'.at = "enter" /\ pc'.ret = "start") =>
             /\ cur' = "initial" /\ buf' = <<>>
             /\ tt' = Len(tasks') /\ tasks'[tt'] = [st |-> "armed",
                                                   timeout |-> states["initial"].timeout]
             /\ pc'.s = "initial"
             /\ pc'.k = NextRegistered(states["initial"].on_enter, 0)
             /\ \E a, t \in 1 .. Len(evs') :
                   /\ a < t /\ t = Len(evs') - 1
                   /\ evs'[a] = Ev("arm", "initial", None, tt')
                   /\ evs'[t].e = "transition"
                   /\ evs'[Len(evs')] =
                        Ev("enter", states["initial"].on_enter[pc'.k], None, pc'.k)
                   /\ \A q \in 1 .. t : evs'[q].e /= "enter"
        /\ (pc.at = "enter" /\ pc.ret = "start" /\ pc' /= pc) =>
             LET names == states[pc.s].on_enter
                 n == NextRegistered(names, pc.k)
             IN  IF n /= 0
                 THEN /\ pc' = [pc EXCEPT !.k = n]
                      /\ evs' = <<Ev("enter", names[n], None, n)>>
                 ELSE /\ pc' = Idle
                      /\ evs' = <<Ev("returned", "start", None, 0)>>
        /\ (evs' /= <<>> /\ evs'[Len(evs')] = Ev("returned", "start", None, 0)
             /\ pc.at = "idle") =>
             /\ NextRegistered(states["initial"].on_enter, 0) = 0
             /\ cur' = "initial" /\ buf' = <<>>
             /\ tt' = Len(tasks') /\ tasks'[tt'].st = "armed" ]_vars

\* start() is suspended in its second registered on-enter handler, the
\* first one has completed, the buffer is empty and the timeout is armed
C15_Witness ==
    /\ pc.at = "enter" /\ pc.ret = "start" /\ pc.s = "initial"
    /\ \E m \in 1 .. pc.k - 1 : states["initial"].on_enter[m] \in Handlers
    /\ evs = <<Ev("enter", states["initial"].on_enter[pc.k], None, pc.k)>>
    /\ buf = <<>> /\ FreshTimeoutFor("initial")

\* C16: a handler with a terminator matches only a buffer that ends with
\* the terminator, and what its transform and its bound handler are given
\* is the buffer without that ending: the handler gets the transform's
\* value of it, or the string itself when no transformer applies, and a
\* transform that fails has failed on it.
C16_TerminatorRequiredAndStripped ==
    [][ \A j \in 1 .. Len(evs') : evs'[j].e = "pattern_match" =>
          LET s == IF pc.at = "bound" THEN pc.s ELSE cur
              h == states[s].handlers[evs'[j].n]
              term == h.terminator
              input == IF pc.at = "bound" THEN buf ELSE Append(buf, call'.sym)
              stripped == SubSeq(input, 1, Len(input) - Len(term))
          IN  term /= <<>> =>
                /\ Len(term) <= Len(input)
                /\ \A q \in 1 .. Len(term) : input[Len(input) - Len(term) + q] = term[q]
                /\ (\E m \in 1 .. Len(evs') :
                       evs'[m].e = "invoke" /\ evs'[m].n = evs'[j].n) =>
                     call'.invoked[Len(call'.invoked)].arg =
                       IF h.transform \in Transformers
                       THEN [val |-> <<IntOf(stripped)>>, str |-> <<>>]
                       ELSE [val |-> <<>>, str |-> stripped]
                /\ (\E m \in 1 .. Len(evs') :
                       evs'[m].e = "transform_fail" /\ evs'[m].n = evs'[j].n) =>
                     \E m \in 1 .. Len(call'.failed) : call'.failed[m] = stripped ]_vars

\* a handler with a terminator was invoked on a buffer of a digit and the
\* terminator, and was given the number of that digit
C16_Witness ==
    /\ pc.at = "bound" /\ HasEv("invoke")
    /\ BoundHandler.terminator = <<"#">>
    /\ Len(buf) = 2 /\ buf[2] = "#"
    /\ call.invoked[Len(call.invoked)].arg = [val |-> <<DigitVal(buf[1])>>, str |-> <<>>]

\* a buffer that the pattern of a handler with a terminator matches, and
\* that does not end with the terminator, was evaluated and matched nothing
C16_WitnessRejected ==
    /\ doc = DocGreeting /\ HasEv("nomatch")
    /\ Len(buf) = 2 /\ buf[1] \in Digits /\ buf[2] = "*"

----------------------------------------------------------------------------
(* Properties of the phone event pipeline, under PipeSpec *)

\* the reader takes a message from the stream in this step
Takes == Len(queue') < Len(queue)

\* the engine's own variables
engineVars == <<cur, buf, tt, tasks, pc, call>>

C18_DtmfOnlyWhileOffHook ==
    [][ /\ (Takes /\ Head(queue).type = "dtmf" /\ ~off_hook) =>
             /\ UNCHANGED <<engineVars, off_hook>>
             /\ evs' = <<Ev("discarded", Head(queue).digit, None, 0)>>
        /\ (Takes /\ Head(queue).type = "dtmf" /\ off_hook) =>
             /\ call'.sym = Head(queue).digit
             /\ evs' /= <<>>
             /\ evs'[1].e \in {"pattern_match", "nomatch"}
        /\ Len(buf') > Len(buf) =>
             /\ off_hook
             /\ Takes /\ Head(queue) = Msg("dtmf", buf'[Len(buf')])
             /\ buf' = Append(buf, Head(queue).digit) ]_vars

\* a digit was discarded after an on_hook that left the engine in a state
\* with symbols in its buffer
C18_Witness ==
    /\ HasEv("discarded")
    /\ ~off_hook
    /\ cur /= None /\ buf /= <<>>

\* a digit was discarded before any off_hook: the engine was never started
C18_WitnessNeverOffHook == HasEv("discarded") /\ cur = None

\* C19 (as stated): after the stream has closed the pipeline stays active
\* and goes on trying to connect: its reader never ends and the pipeline
\* never stops being marked running.
C19_ReaderNeverGivesUp == link = "closed" => (reader /= "ended" /\ running)

\* C19 (amended): when recv() finds the stream closed the reader
\* disconnects and ends: the pipeline is marked not running and has no
\* connection.  From then on nothing brings it back: no connection is
\* opened, no message is taken, the hook state stays, and the engine
\* changes only by the expiry of a dwell timeout, also after the server is
\* back.  A payload that cannot be decoded makes the reader sleep and then
\* read the same connection again.
C19_ClosedStreamEndsReader ==
    [][ /\ (reader = "recv" /\ queue = <<>> /\ reader' /= "recv") =>
             /\ link = "closed"
             /\ reader' = "ended" /\ ~running' /\ ws' = None
        /\ reader = "ended" =>
             /\ reader' = "ended" /\ ~running' /\ ws' = None
             /\ link' = link
             /\ UNCHANGED <<queue, off_hook>>
             /\ (engineVars' /= engineVars => evs'[1].e = "expired")
        /\ (Takes /\ Head(queue).type = "bad") =>
             /\ reader' = "sleep"
             /\ UNCHANGED <<engineVars, off_hook, running, ws, link>>
        /\ (reader = "sleep" /\ reader' /= "sleep") =>
             /\ reader' = "recv"
             /\ UNCHANGED <<engineVars, off_hook, running, ws, link, queue>> ]_vars

\* the stream closed, the reader ended, and the server is back
C19_Witness ==
    /\ reader = "ended" /\ ~running /\ ws = None
    /\ link = "closed"
    /\ service = "up"

\* C20: an off_hook event marks the line off-hook and starts the engine
\* again.  Whatever state and buffer the engine had, when the reader next
\* suspends or returns the engine is in "initial" with an empty buffer, a
\* new task sleeps for the dwell time of "initial", and cancel() was called
\* on the timeout task it replaces unless that one had already finished.
C20_OffHookRestartsEngine ==
    [][ (Takes /\ Head(queue).type = "off_hook") =>
          /\ off_hook'
          /\ cur' = "initial" /\ buf' = <<>>
          /\ tt' = Len(tasks') /\ tt' = Len(tasks) + 1
          /\ tasks'[tt'] = [st |-> "armed", timeout |-> states["initial"].timeout]
          /\ tt /= 0 => /\ tasks'[tt].st \in {"cancelled", "done"}
                        /\ tasks[tt].st = "armed" => tasks'[tt].st = "cancelled"
          /\ \A t \in 1 .. Len(tasks) : t /= tt => tasks'[t] = tasks[t] ]_vars

\* an off_hook event found the engine in another state than "initial" and
\* took it back there; the timeout of that state was cancelled
C20_Witness ==
    /\ off_hook /\ cur = "initial" /\ buf = <<>>
    /\ \E j \in 1 .. Len(evs) :
          /\ evs[j].e = "transition" /\ evs[j].a = "initial" /\ evs[j].b = "service"
          /\ evs[j].n /= 0 /\ tasks[evs[j].n].st = "cancelled"
    /\ evs[Len(evs)] = Ev("returned", "start", None, 0)
    /\ FreshTimeoutFor("initial")

\* C21: an on_hook event only marks the line on-hook.  The step that takes
\* it leaves the engine's state, buffer, dwell timeout and tasks, the
\* position of the pipeline task, the connection and every countdown timer
\* exactly as they were.
C21_OnHookOnlyMarks ==
    [][ (Takes /\ Head(queue).type = "on_hook") =>
          /\ ~off_hook'
          /\ UNCHANGED <<engineVars, evs>>
          /\ UNCHANGED <<running, ws, link, reader>>
          /\ UNCHANGED <<timers, now, sweep_at>> ]_vars

\* the line is on-hook again while the engine still holds buffered digits
\* and its dwell timeout sleeps
C21_Witness ==
    /\ ~off_hook
    /\ cur /= None /\ buf /= <<>>
    /\ tt /= 0 /\ tasks[tt].st = "armed"
    /\ reader = "recv"

\* C22: a payload that cannot be decoded is dropped and the stream is not
\* restarted.  The step that takes it changes neither the connection, nor
\* the hook state, nor the engine; the reader sleeps, and while it sleeps
\* the pipeline is running on the connection it had, so that when the sleep
\* is over it is back at recv() on that connection, where the next event is
\* taken as any other.
C22_BadPayloadDropped ==
    [][ /\ (Takes /\ Head(queue).type = "bad") =>
             /\ reader' = "sleep"
             /\ ws' = ws /\ ws' = "open" /\ running' /\ link' = link
             /\ off_hook' = off_hook
             /\ UNCHANGED <<engineVars, evs>>
        /\ (reader = "sleep" /\ reader' /= "sleep") =>
             /\ reader' = "recv"
             /\ ws' = ws /\ ws' = "open" /\ running'
             /\ UNCHANGED <<off_hook, queue, engineVars>>
        /\ (reader = "sleep" /\ reader' = "sleep") =>
             /\ ws' = ws /\ running' /\ off_hook' = off_hook
             /\ (engineVars' /= engineVars => evs'[1].e = "expired") ]_vars

\* the reader sleeps after a bad payload, in the middle of an interaction:
\* the line is still off-hook and the engine still holds its digits
C22_Witness ==
    /\ reader = "sleep"
    /\ ws = "open" /\ running /\ link = "up"
    /\ off_hook /\ cur /= None /\ buf /= <<>>
    /\ tt /= 0 /\ tasks[tt].st = "armed"

\* C23: connect() never raises.  When the stream cannot be opened the
\* pipeline is in degraded mode: connect has returned, no reader task
\* exists, the pipeline is not marked running and holds no connection; this
\* stays so whatever the server does afterwards.  A reader exists only on a
\* stream that was opened.
C23_DegradedMode ==
    /\ link = "refused" => (reader = "none" /\ ~running /\ ws = None /\ queue = <<>>)
    /\ reader /= "none" => link \in {"up", "closed"}
    /\ running => (ws = "open" /\ link \in {"up", "closed"})

\* the stream was refused and the server came up afterwards
C23_Witness ==
    /\ link = "refused"
    /\ engine = "ready"
    /\ service = "up"

----------------------------------------------------------------------------
(* The timer subsystem: TimerManager keeps every Timer in active_timers,   *)
(* runs one countdown task (_run_timer) per Timer and one sweep task       *)
(* (_cleanup_loop).  Timer.start_time, Timer.end_time and the sweep's      *)
(* cutoff read the wall clock; asyncio.sleep only guarantees that at least *)
(* the requested time has passed when it returns.                          *)

\* at most this many timers are created
MaxTimers == 1

\* the clock is advanced second by second at most this far, from the start
\* and again from the end of the retention period
MaxSeconds == 1

\* "if not 1 <= minutes <= 60"
MinMinutes == 1
MaxMinutes == 60

\* "if timer.remaining == 60"
OneMinute == 60

\* "cutoff = datetime.now() - timedelta(hours=1)", in seconds
Retention == 3600

\* "await asyncio.sleep(300)" of the sweep
SweepPeriod == 300

\* the clock is followed through one retention period and MaxSeconds more
Horizon == Retention + MaxSeconds

\* the minutes quick_timer is called with
QuickMinutes == { 0, 1, 60, 61 }

\* the durations, in seconds, create_timer is called with
CreateDurations == { 0, 61 }

\* how an awaited audio.speak ends
SpeakOutcomes == { "ok", "raise" }

\* an observation of one thing a step did: what (e), to which timer (t, 0
\* for none), in which coroutine (by), with which argument (x)
TEv(e, t, by, x) == [e |-> e, t |-> t, by |-> by, x |-> x]

\* Timer.__init__ (end is end_time = start_time + duration); task is the
\* state of the countdown task, must whether cancel() was called on it and
\* CancelledError is still to be thrown into it, due whether the second of
\* its sleep(1) has passed; reg is membership of active_timers; minute and
\* complete count the calls of the two announcements and term_at observes
\* when the timer was marked completed or cancelled
NewTimer(d) ==
    [ duration |-> d, end |-> now + d, remaining |-> d,
      completed |-> FALSE, cancelled |-> FALSE,
      task |-> "new", must |-> FALSE, due |-> FALSE,
      reg |-> TRUE, minute |-> 0, complete |-> 0, term_at |-> 0 ]

\* a mutation of TaskAlive: cancel_timer does not look at the task
TaskAliveAlways(tr) == TRUE

\* "not timer.task.done()"
TaskAlive(tr) == tr.task \in {"new", "sleep", "say_minute", "say_complete"}

\* the ids create_timer and quick_timer have handed out
TimerIds == 1 .. Len(timers)

\* a mutation of Registered: an id that was handed out is known for ever
RegisteredOnce(id) == id \in TimerIds

\* get_timer / "timer_id not in self.active_timers"
Registered(id) == id \in TimerIds /\ timers[id].reg

\* the timer subsystem leaves the engine and the pipeline alone
TimerOnly ==
    UNCHANGED <<doc, engine, states, cur, buf, tt, tasks, pc, call, evs, pipe,
                parser, sm>>

\* a mutation of AfterLoop: the timer is marked completed and nothing is said
AfterLoopSilent(tr, id) ==
    IF ~tr.cancelled
    THEN [ t |-> [tr EXCEPT !.completed = TRUE, !.task = "done", !.term_at = now],
           log |-> << TEv("write_completed", id, "countdown", 0) >> ]
    ELSE [ t |-> [tr EXCEPT !.task = "done"], log |-> <<>> ]

\* _run_timer after the loop: "if not timer.cancelled: timer.completed =
\* True", then the awaited "complete" announcement
AfterLoop(tr, id) ==
    IF ~tr.cancelled
    THEN [ t |-> [tr EXCEPT !.completed = TRUE, !.task = "say_complete",
                            !.complete = @ + 1, !.term_at = now],
           log |-> << TEv("write_completed", id, "countdown", 0),
                      TEv("speak_complete", id, "countdown", 0) >> ]
    ELSE [ t |-> [tr EXCEPT !.task = "done"], log |-> <<>> ]

\* a mutation of LoopCheck: the loop goes on until the timer is cancelled
LoopCheckUntilCancelled(tr, id) ==
    IF ~tr.cancelled
    THEN [ t |-> [tr EXCEPT !.task = "sleep", !.due = FALSE], log |-> <<>> ]
    ELSE AfterLoop(tr, id)

\* _run_timer at "while timer.remaining > 0 and not timer.cancelled"
LoopCheck(tr, id) ==
    IF tr.remaining > 0 /\ ~tr.cancelled
    THEN [ t |-> [tr EXCEPT !.task = "sleep", !.due = FALSE], log |-> <<>> ]
    ELSE AfterLoop(tr, id)

\* create_timer(duration): no validation, no announcement
CreateTimer(d) ==
    /\ Len(timers) < MaxTimers
    /\ timers' = Append(timers, NewTimer(d))
    /\ tlog' = << TEv("call", 0, "create_timer", d),
                  TEv("registered", Len(timers) + 1, "create_timer", d),
                  TEv("returned", Len(timers) + 1, "create_timer", d) >>
    /\ UNCHANGED <<now, sweep_at>>
    /\ TimerOnly

\* quick_timer(minutes): the validation, the Timer, its task, the registry
\* entry, then the awaited announcement; whatever is raised inside comes out
\* as TimerError
quick_timer(m, speak) ==
    /\ IF ~(MinMinutes <= m /\ m <= MaxMinutes)
       THEN /\ tlog' = << TEv("call", 0, "quick_timer", m),
                          TEv("raised", 0, "quick_timer", m) >>
            /\ UNCHANGED timers
       ELSE /\ Len(timers) < MaxTimers
            /\ timers' = Append(timers, NewTimer(m * 60))
            /\ tlog' = << TEv("call", 0, "quick_timer", m),
                          TEv("registered", Len(timers) + 1, "quick_timer", m * 60),
                          TEv("speak_setting", Len(timers) + 1, "quick_timer", m),
                          IF speak = "ok"
                          THEN TEv("returned", Len(timers) + 1, "quick_timer", m)
                          ELSE TEv("raised", 0, "quick_timer", m) >>
    /\ UNCHANGED <<now, sweep_at>>
    /\ TimerOnly

\* the countdown task runs for the first time
StartTask(id) ==
    /\ id \in TimerIds
    /\ timers[id].task = "new" /\ ~timers[id].must
    /\ LET r == LoopCheck(timers[id], id) IN
       /\ timers' = [timers EXCEPT ![id] = r.t]
       /\ tlog' = << TEv("resume", id, "countdown", 0) >> \o r.log
    /\ UNCHANGED <<now, sweep_at>>
    /\ TimerOnly

\* "await asyncio.sleep(1)" returns: "timer.remaining -= 1", then the
\* one-minute announcement or the loop test
Tick(id) ==
    /\ id \in TimerIds
    /\ timers[id].task = "sleep" /\ ~timers[id].must
    /\ timers[id].due
    /\ LET tr == [timers[id] EXCEPT !.remaining = @ - 1] IN
       IF tr.remaining = OneMinute
       THEN /\ timers' = [timers EXCEPT ![id] =
                             [tr EXCEPT !.task = "say_minute", !.minute = @ + 1]]
            /\ tlog' = << TEv("resume", id, "countdown", 0),
                          TEv("write_remaining", id, "countdown", tr.remaining),
                          TEv("speak_minute", id, "countdown", 0) >>
       ELSE LET r == LoopCheck(tr, id) IN
            /\ timers' = [timers EXCEPT ![id] = r.t]
            /\ tlog' = << TEv("resume", id, "countdown", 0),
                          TEv("write_remaining", id, "countdown", tr.remaining) >>
                       \o r.log
    /\ UNCHANGED <<now, sweep_at>>
    /\ TimerOnly

\* the awaited "One minute remaining" ends: the loop goes on, or the
\* exception ends _run_timer ("Timer error", raise)
MinuteSpoken(id, outcome) ==
    /\ id \in TimerIds
    /\ timers[id].task = "say_minute" /\ ~timers[id].must
    /\ IF outcome = "ok"
       THEN LET r == LoopCheck(timers[id], id) IN
            /\ timers' = [timers EXCEPT ![id] = r.t]
            /\ tlog' = << TEv("resume", id, "countdown", 0) >> \o r.log
       ELSE /\ timers' = [timers EXCEPT ![id].task = "failed"]
            /\ tlog' = << TEv("resume", id, "countdown", 0),
                          TEv("task_raised", id, "countdown", 0) >>
    /\ UNCHANGED <<now, sweep_at>>
    /\ TimerOnly

\* the awaited "Timer ... complete" ends
CompleteSpoken(id, outcome) ==
    /\ id \in TimerIds
    /\ timers[id].task = "say_complete" /\ ~timers[id].must
    /\ timers' = [timers EXCEPT ![id].task =
                     IF outcome = "ok" THEN "done" ELSE "failed"]
    /\ tlog' = << TEv("resume", id, "countdown", 0) >> \o
               ( IF outcome = "ok" THEN <<>>
                 ELSE << TEv("task_raised", id, "countdown", 0) >> )
    /\ UNCHANGED <<now, sweep_at>>
    /\ TimerOnly

\* a mutation of DeliverCancel: the countdown task marks its timer cancelled
DeliverCancelMarks(id) ==
    /\ id \in TimerIds
    /\ TaskAlive(timers[id]) /\ timers[id].must
    /\ timers' = [timers EXCEPT ![id].task = "cancelled", ![id].must = FALSE,
                                ![id].cancelled = TRUE]
    /\ tlog' = << TEv("resume", id, "countdown", 0),
                  TEv("write_cancelled", id, "countdown", 0),
                  TEv("task_cancelled", id, "countdown", 0) >>
    /\ UNCHANGED <<now, sweep_at>>
    /\ TimerOnly

\* CancelledError is thrown into the countdown task where it waits:
\* "except asyncio.CancelledError: ... raise"
DeliverCancel(id) ==
    /\ id \in TimerIds
    /\ TaskAlive(timers[id]) /\ timers[id].must
    /\ timers' = [timers EXCEPT ![id].task = "cancelled", ![id].must = FALSE]
    /\ tlog' = << TEv("resume", id, "countdown", 0),
                  TEv("task_cancelled", id, "countdown", 0) >>
    /\ UNCHANGED <<now, sweep_at>>
    /\ TimerOnly

\* cancel_timer(timer_id)
cancel_timer(id, speak) ==
    /\ IF ~Registered(id)
       THEN /\ tlog' = << TEv("call", id, "cancel_timer", 0),
                          TEv("raised", id, "cancel_timer", 0) >>
            /\ UNCHANGED timers
       ELSE IF TaskAlive(timers[id])
       THEN /\ timers' = [timers EXCEPT
                             ![id].must = TRUE,
                             ![id].cancelled = TRUE,
                             ![id].term_at = IF timers[id].completed \/ timers[id].cancelled
                                             THEN @ ELSE now]
            /\ tlog' = << TEv("call", id, "cancel_timer", 0),
                          TEv("task_cancel", id, "cancel_timer", 0),
                          TEv("write_cancelled", id, "cancel_timer", 0),
                          TEv("speak_cancelled", id, "cancel_timer", 0),
                          IF speak = "ok"
                          THEN TEv("returned", id, "cancel_timer", 0)
                          ELSE TEv("raised", id, "cancel_timer", 0) >>
       ELSE /\ tlog' = << TEv("call", id, "cancel_timer", 0),
                          TEv("returned", id, "cancel_timer", 0) >>
            /\ UNCHANGED timers
    /\ UNCHANGED <<now, sweep_at>>
    /\ TimerOnly

\* a mutation of Terminated: the sweep does not look at the flags
TerminatedOrNot(tr) == TRUE

\* _cleanup_loop, "(timer.completed or timer.cancelled)"
Terminated(tr) == tr.completed \/ tr.cancelled

\* a mutation of Expired: a timer goes at the cutoff, not after it
ExpiredAtCutoff(tr) == tr.end <= now - Retention

\* _cleanup_loop, "timer.end_time < cutoff"
Expired(tr) == tr.end < now - Retention

\* _cleanup_loop, the test of to_remove
Sweepable(tr) == Terminated(tr) /\ Expired(tr)

\* one round of _cleanup_loop, then "await asyncio.sleep(300)"
Sweep ==
    /\ now >= sweep_at
    /\ timers' = [ id \in TimerIds |->
                     IF timers[id].reg /\ Sweepable(timers[id])
                     THEN [timers[id] EXCEPT !.reg = FALSE] ELSE timers[id] ]
    /\ tlog' = << TEv("call", 0, "sweep", now) >> \o
               SelectSeq([ id \in TimerIds |-> TEv("removed", id, "sweep", timers[id].end) ],
                         LAMBDA e : timers[e.t].reg /\ Sweepable(timers[e.t]))
    /\ sweep_at' = now + SweepPeriod
    /\ UNCHANGED now
    /\ TimerOnly

\* time passes: every sleep(1) that was under way can return
Elapse(dt) ==
    /\ now + dt <= Horizon
    /\ now' = now + dt
    /\ timers' = [ id \in TimerIds |->
                     IF timers[id].task = "sleep"
                     THEN [timers[id] EXCEPT !.due = TRUE] ELSE timers[id] ]
    /\ tlog' = << TEv("clock", 0, "clock", dt) >>
    /\ UNCHANGED sweep_at
    /\ TimerOnly

\* a second passes
Second ==
    /\ now % Retention < MaxSeconds
    /\ Elapse(1)

\* the wall clock moves on by the retention period before a task of the
\* timer subsystem gets to run again (the event loop was held up, or the
\* local time datetime.now() reads was set forward)
Hour == Elapse(Retention)

TimerInit ==
    /\ doc = DocMain
    /\ engine = "unloaded"
    /\ states = <<>>
    /\ cur = None
    /\ buf = <<>>
    /\ tt = 0
    /\ tasks = <<>>
    /\ pc = Idle
    /\ call = NoCall
    /\ evs = <<>>
    /\ PipeNew
    /\ TimerNew
    /\ ParserNew
    /\ StateManagerNew
    /\ service = "up"

TimerNext ==
    \/ \E d \in CreateDurations : CreateTimer(d)
    \/ \E m \in QuickMinutes : \E speak \in SpeakOutcomes : quick_timer(m, speak)
    \/ \E id \in 1 .. MaxTimers : StartTask(id)
    \/ \E id \in 1 .. MaxTimers : Tick(id)
    \/ \E id \in 1 .. MaxTimers : \E outcome \in SpeakOutcomes : MinuteSpoken(id, outcome)
    \/ \E id \in 1 .. MaxTimers : \E outcome \in SpeakOutcomes : CompleteSpoken(id, outcome)
    \/ \E id \in 1 .. MaxTimers : DeliverCancel(id)
    \/ \E id \in 1 .. MaxTimers + 1 : \E speak \in SpeakOutcomes : cancel_timer(id, speak)
    \/ Sweep
    \/ Second
    \/ Hour

TimerSpec == TimerInit /\ [][TimerNext]_vars

----------------------------------------------------------------------------
(* Properties of the timer subsystem *)

\* the last step did e
TLogHas(e) == \E j \in 1 .. Len(tlog) : tlog[j].e = e

\* the last step was a call of the API function by
TCall(by) == tlog /= <<>> /\ tlog[1].e = "call" /\ tlog[1].by = by

\* the countdown of the timer is still under way
Counting(tr) == tr.task \in {"new", "sleep", "say_minute"} /\ ~tr.must

\* the countdown task of the timer has finished
TaskOver(tr) == tr.task \in {"done", "failed", "cancelled"}

\* C24 (as stated): quick_timer(m) raises and creates no timer for m
\* outside 1..60; for m in 1..60 it returns the timer it has registered,
\* of m*60 seconds, under an id no other timer has.
C24_QuickTimerValidatesAndReturns ==
    TCall("quick_timer") =>
        IF tlog[1].x \in 1 .. 60
        THEN /\ tlog[Len(tlog)].e = "returned"
             /\ tlog[Len(tlog)].t = Len(timers)
             /\ timers[Len(timers)].reg
             /\ timers[Len(timers)].duration = tlog[1].x * 60
        ELSE /\ tlog[Len(tlog)].e = "raised"
             /\ ~TLogHas("registered")

\* C25 (as stated): a timer of more than 60 seconds that is not cancelled
\* announces the last minute once, when 60 seconds remain, and once its
\* countdown is over it has announced its completion once and is marked
\* completed.
C25_AnnouncesMinuteThenCompletes ==
    \A id \in TimerIds :
        (timers[id].duration > 60 /\ ~timers[id].cancelled) =>
            /\ timers[id].minute <= 1 /\ timers[id].complete <= 1
            /\ timers[id].minute = 1 <=> timers[id].remaining <= 60
            /\ TaskOver(timers[id]) =>
                  /\ timers[id].minute = 1
                  /\ timers[id].complete = 1
                  /\ timers[id].completed /\ timers[id].remaining = 0

\* C26 (as stated): cancel_timer on a registered timer, at any point of its
\* life, marks it cancelled and fires the "cancelled" side effect, and
\* "complete" is not fired for a cancelled timer.
C26_CancelAlwaysMarks ==
    /\ (TCall("cancel_timer") /\ Registered(tlog[1].t)) =>
           /\ timers[tlog[1].t].cancelled
           /\ TLogHas("speak_cancelled")
    /\ \A j \in 1 .. Len(tlog) :
           tlog[j].e = "speak_complete" => ~timers[tlog[j].t].cancelled

\* C26 (amended): cancel_timer on a registered timer whose countdown task
\* has not finished marks the timer cancelled, requests the cancellation of
\* the task and fires the "cancelled" side effect; "complete" is not fired
\* and the timer is not marked completed once it is cancelled.  On a
\* registered timer whose countdown task has finished (after completion or
\* after a failed announcement) cancel_timer writes nothing and fires
\* nothing.
C26_CancelMarksUnfinished ==
    /\ (TCall("cancel_timer") /\ Registered(tlog[1].t)) =>
           IF TaskOver(timers[tlog[1].t])
           THEN tlog = << TEv("call", tlog[1].t, "cancel_timer", 0),
                          TEv("returned", tlog[1].t, "cancel_timer", 0) >>
           ELSE /\ timers[tlog[1].t].cancelled
                /\ timers[tlog[1].t].must
                /\ TLogHas("task_cancel")
                /\ TLogHas("speak_cancelled")
    /\ \A j \in 1 .. Len(tlog) :
           tlog[j].e \in {"speak_complete", "write_completed"} =>
               ~timers[tlog[j].t].cancelled
    /\ \A id \in TimerIds :
           timers[id].cancelled =>
               /\ timers[id].must \/ timers[id].task = "cancelled"
               /\ timers[id].complete = IF timers[id].completed THEN 1 ELSE 0

\* cancel_timer was called on a timer whose countdown sleeps
C26_Witness ==
    /\ TCall("cancel_timer") /\ Registered(tlog[1].t)
    /\ timers[tlog[1].t].task = "sleep"
    /\ timers[tlog[1].t].cancelled /\ timers[tlog[1].t].must
    /\ timers[tlog[1].t].remaining > 0

\* cancel_timer was called on a timer that had completed
C26_WitnessCompleted ==
    /\ TCall("cancel_timer") /\ Registered(tlog[1].t)
    /\ timers[tlog[1].t].task = "done"
    /\ timers[tlog[1].t].completed /\ ~timers[tlog[1].t].cancelled

\* C27 (as stated): every timer terminates; in particular a timer whose
\* countdown task has finished, whatever ended it, is completed or
\* cancelled.
C27_FinishedTaskTerminatedTimer ==
    \A id \in TimerIds :
        TaskOver(timers[id]) => (timers[id].completed \/ timers[id].cancelled)

\* C28: a timer leaves the registry only in a round of the sweep, and only
\* when it is completed or cancelled and its scheduled end is more than the
\* retention period in the past.  No call of the API removes one, and one
\* whose countdown is under way is never removed.
C28_RemovedOnlyBySweep ==
    /\ \A j \in 1 .. Len(tlog) :
           tlog[j].e = "removed" =>
               /\ tlog[1] = TEv("call", 0, "sweep", now)
               /\ ~timers[tlog[j].t].reg
    /\ (tlog /= <<>> /\ tlog[1].by /= "sweep") => ~TLogHas("removed")
    /\ \A id \in TimerIds :
           ~timers[id].reg =>
               /\ timers[id].completed \/ timers[id].cancelled
               /\ timers[id].end + Retention < now
               /\ ~Counting(timers[id])

\* the sweep has just removed a cancelled timer
C28_Witness ==
    /\ TLogHas("removed")
    /\ \E id \in TimerIds : ~timers[id].reg /\ timers[id].cancelled

\* C29 (as stated): a terminated timer is kept for one hour from the moment
\* it actually completed or was cancelled: no sweep removes it before, and
\* a sweep that runs after that hour removes it.
C29_RetainedOneHourFromTermination ==
    /\ \A j \in 1 .. Len(tlog) :
           tlog[j].e = "removed" =>
               now >= timers[tlog[j].t].term_at + Retention
    /\ TCall("sweep") =>
           \A id \in TimerIds :
               (timers[id].reg /\ Terminated(timers[id])) =>
                    now <= timers[id].term_at + Retention

\* C29 (amended): a terminated timer is kept until its scheduled end time
\* (start + duration) is more than one hour in the past, whenever it
\* actually completed or was cancelled: a sweep removes no timer whose
\* scheduled end is an hour ago or less, and leaves no completed or
\* cancelled timer in the registry whose scheduled end is more than an hour
\* ago.
C29_RetainedOneHourFromScheduledEnd ==
    /\ \A j \in 1 .. Len(tlog) :
           tlog[j].e = "removed" =>
               /\ tlog[j].x = timers[tlog[j].t].end
               /\ tlog[j].x + Retention < now
    /\ TCall("sweep") =>
           \A id \in TimerIds :
               timers[id].reg =>
                   ~( (timers[id].completed \/ timers[id].cancelled)
                      /\ timers[id].end + Retention < now )

\* a sweep has just kept a timer that was cancelled more than an hour ago,
\* because its scheduled end is not an hour ago yet
C29_Witness ==
    /\ TCall("sweep")
    /\ \E id \in TimerIds :
          /\ timers[id].reg /\ timers[id].cancelled
          /\ now > timers[id].term_at + Retention
          /\ timers[id].end + Retention >= now

\* a sweep has just removed a timer
C29_WitnessRemoved ==
    /\ TCall("sweep")
    /\ \E j \in 1 .. Len(tlog) : tlog[j].e = "removed" /\ timers[tlog[j].t].completed

C30_WitnessCountdown == TLogHas("write_remaining") /\ tlog[1].by = "countdown"

----------------------------------------------------------------------------
(* The command parser (src/iroh/core/command_parser.py).  parse_sequence   *)
(* is a function of the event list it is given: the list is drawn in the   *)
(* initial state and the one action applies the function to it.  An event  *)
(* is a message of the stream, Msg(type, digit); a dtmf event whose digit  *)
(* is None has no "digit" key.                                             *)

\* the longest event list parse_sequence is given
MaxEvents == 4

\* the digits of the dtmf events of a parsed list
ParserSym == { "0", "1", "2", "7", "*", "#" }

\* the events of a parsed list
ParserEvents ==
    { Msg("off_hook", None), Msg("on_hook", None), Msg("dtmf", None) }
      \cup { Msg("dtmf", d) : d \in ParserSym }

\* the event lists parse_sequence is given
EventLists == UNION { [1 .. n -> ParserEvents] : n \in 0 .. MaxEvents }

\* the characters str.isdigit accepts, in the order of their value
DecimalDigits == << "0", "1", "2", "3", "4", "5", "6", "7", "8", "9" >>

\* digit.isdigit() of a one-character string
isdigit(c) == \E n \in 1 .. Len(DecimalDigits) : DecimalDigits[n] = c

\* int(digit) of a one-character string of a decimal digit
int(c) == (CHOOSE n \in 1 .. Len(DecimalDigits) : DecimalDigits[n] = c) - 1

\* the dataclass Command
Command(name, args, raw_sequence) ==
    [ name |-> name, args |-> args, raw_sequence |-> raw_sequence ]

\* a matcher returns None
NoCommand == [ name |-> None ]

\* a mutation of _match_quick_timer: the digit counts from zero
MatchQuickTimerFromZero(evts) ==
    IF Len(evts) /= 3 THEN NoCommand
    ELSE IF ~( evts[1].type = "off_hook" /\ evts[2].type = "dtmf"
               /\ evts[3].type = "on_hook" )
    THEN NoCommand
    ELSE LET digit == evts[2].digit IN
         IF digit = None \/ ~isdigit(digit)
         THEN NoCommand
         ELSE Command("quick_timer", [minutes |-> int(digit) - 1], evts)

\* off_hook, one dtmf digit 1-9, on_hook: the command quick_timer
_match_quick_timer(evts) ==
    IF Len(evts) /= 3 THEN NoCommand
    ELSE IF ~( evts[1].type = "off_hook" /\ evts[2].type = "dtmf"
               /\ evts[3].type = "on_hook" )
    THEN NoCommand
    ELSE LET digit == evts[2].digit IN
         IF digit = None \/ ~isdigit(digit) \/ int(digit) < 1 \/ int(digit) > 9
         THEN NoCommand
         ELSE Command("quick_timer", [minutes |-> int(digit)], evts)

\* "".join(e.get("digit", "") for e in events[1:]), as the sequence of its
\* characters
RECURSIVE JoinDigits(_)
JoinDigits(evts) ==
    IF evts = <<>> THEN <<>>
    ELSE IF Head(evts).digit = None THEN JoinDigits(Tail(evts))
    ELSE <<Head(evts).digit>> \o JoinDigits(Tail(evts))

\* the "entity" argument of the two light commands
AllLights == "group.all_lights"

\* the default of the parameter entity of HomeAssistantService.lights_on
\* and lights_off
DefaultEntity(action) ==
    IF action \in {"lights_on", "lights_off"} THEN "group.all_lights"
    ELSE "climate.thermostat"

\* a mutation of _match_service_command: "1" and "0" change places
MatchServiceSwapped(evts) ==
    IF Len(evts) < 2 THEN NoCommand
    ELSE IF \E j \in 1 .. Len(evts) : evts[j].type /= "dtmf" THEN NoCommand
    ELSE IF evts[1].digit /= "*" THEN NoCommand
    ELSE
    LET sequence == JoinDigits(Tail(evts)) IN
    IF sequence = <<"0">>
    THEN Command("service", [action |-> "lights_on", entity |-> AllLights], evts)
    ELSE IF sequence = <<"1">>
    THEN Command("service", [action |-> "lights_off", entity |-> AllLights], evts)
    ELSE NoCommand

\* dtmf events only, the first one "*": *1, *0 and *2XX
_match_service_command(evts) ==
    IF Len(evts) < 2 THEN NoCommand
    ELSE IF \E j \in 1 .. Len(evts) : evts[j].type /= "dtmf" THEN NoCommand
    ELSE IF evts[1].digit /= "*" THEN NoCommand
    ELSE
    LET sequence == JoinDigits(Tail(evts)) IN
    IF sequence = <<"1">>
    THEN Command("service", [action |-> "lights_on", entity |-> AllLights], evts)
    ELSE IF sequence = <<"0">>
    THEN Command("service", [action |-> "lights_off", entity |-> AllLights], evts)
    ELSE IF Len(sequence) = 3 /\ sequence[1] = "2"
            /\ isdigit(sequence[2]) /\ isdigit(sequence[3])
    THEN LET temp == 10 * int(sequence[2]) + int(sequence[3]) IN
         IF 60 <= temp /\ temp <= 85
         THEN Command("service",
                      [action |-> "set_temperature", entity |-> "climate.thermostat",
                       temperature |-> temp], evts)
         ELSE NoCommand
    ELSE NoCommand

\* the one dtmf event "#": the command voice, without arguments
_match_voice_command(evts) ==
    IF Len(evts) /= 1 THEN NoCommand
    ELSE IF ~(evts[1].type = "dtmf" /\ evts[1].digit = "#") THEN NoCommand
    ELSE Command("voice", <<>>, evts)

\* self.matchers, in the order of the dict
matchers(evts) ==
    << _match_quick_timer(evts), _match_service_command(evts),
       _match_voice_command(evts) >>

\* parse_sequence: the command of the first matcher that returns one
parse_sequence(evts) ==
    LET found == { j \in 1 .. Len(matchers(evts)) : matchers(evts)[j] /= NoCommand } IN
    IF found = {} THEN NoCommand
    ELSE matchers(evts)[CHOOSE j \in found : \A m \in found : j <= m]

\* everything but the parser
ParserOnly ==
    UNCHANGED <<doc, engine, states, cur, buf, tt, tasks, pc, call, evs, pipe, tm, sm>>

\* the caller awaits parser.parse_sequence(events)
Parse ==
    /\ command' = parse_sequence(events)
    /\ UNCHANGED events
    /\ ParserOnly

ParseInit ==
    /\ doc = DocMain
    /\ engine = "unloaded"
    /\ states = <<>>
    /\ cur = None
    /\ buf = <<>>
    /\ tt = 0
    /\ tasks = <<>>
    /\ pc = Idle
    /\ call = NoCall
    /\ evs = <<>>
    /\ PipeNew
    /\ service = "up"
    /\ TimerNew
    /\ StateManagerNew
    /\ events \in EventLists
    /\ command = Unparsed

ParseNext == Parse

ParseSpec == ParseInit /\ [][ParseNext]_vars

----------------------------------------------------------------------------
(* The system state tracker (src/iroh/core/state_manager.py).  A record of *)
(* state_changes holds the two states of the change; its timestamp and     *)
(* duration are left out.                                                  *)

\* the most changes of state explored
MaxChanges == 6

\* len(self.debug_info["state_changes"]) > 100
HistoryCap == 100

\* what set_state is asked for: the three states and a name that is none
StateRequests == { "idle", "processing", "error", "shutdown" }

\* a mutation of ValidTransitions: a state may be set again
ValidTransitionsOrSame(st) ==
    IF st = "idle" THEN {"idle", "processing", "error"}
    ELSE IF st = "processing" THEN {"processing", "idle", "error"}
    ELSE IF st = "error" THEN {"error", "idle"}
    ELSE {}

\* self.valid_transitions.get(st, [])
ValidTransitions(st) ==
    IF st = "idle" THEN {"processing", "error"}
    ELSE IF st = "processing" THEN {"idle", "error"}
    ELSE IF st = "error" THEN {"idle"}
    ELSE {}

\* append(state_change), and pop(0) beyond the cap
Recorded(changes, change) ==
    LET a == Append(changes, change) IN
    IF Len(a) > HistoryCap THEN Tail(a) ELSE a

\* everything but the state tracker
StateManagerOnly ==
    UNCHANGED <<doc, engine, states, cur, buf, tt, tasks, pc, call, evs, pipe, tm,
                parser>>

\* set_state(new_state): validate, record the change, update; the
\* StateError of a refused request is raised again as a StateError
set_state(new_state) ==
    /\ IF new_state \notin ValidTransitions(current_state)
       THEN /\ set_state_raised' = [request |-> new_state, raised |-> TRUE]
            /\ UNCHANGED <<current_state, previous_state, state_changes>>
       ELSE /\ Len(state_changes) < MaxChanges
            /\ previous_state' = current_state
            /\ current_state' = new_state
            /\ state_changes' =
                  Recorded(state_changes,
                           [from_state |-> current_state, to_state |-> new_state])
            /\ set_state_raised' = [request |-> new_state, raised |-> FALSE]
    /\ StateManagerOnly

StateInit ==
    /\ doc = DocMain
    /\ engine = "unloaded"
    /\ states = <<>>
    /\ cur = None
    /\ buf = <<>>
    /\ tt = 0
    /\ tasks = <<>>
    /\ pc = Idle
    /\ call = NoCall
    /\ evs = <<>>
    /\ PipeNew
    /\ service = "up"
    /\ TimerNew
    /\ ParserNew
    /\ StateManagerNew

StateNext == \E new_state \in StateRequests : set_state(new_state)

StateSpec == StateInit /\ [][StateNext]_vars

----------------------------------------------------------------------------
(* Properties of the timers, the parser and the state tracker *)

\* C31: the remaining time of a timer never increases.  It starts at the
\* duration, no step but a tick of the timer's own countdown changes it,
\* such a tick takes exactly 1 off, and for a duration that is not negative
\* it stays within 0 .. duration.
C31_RemainingOnlyDecreases ==
    [][ /\ \A id \in TimerIds :
              /\ timers'[id].remaining <= timers[id].remaining
              /\ timers'[id].remaining /= timers[id].remaining =>
                    /\ timers'[id].remaining = timers[id].remaining - 1
                    /\ timers[id].task = "sleep" /\ timers[id].due
                    /\ tlog'[1] = TEv("resume", id, "countdown", 0)
              /\ timers'[id].duration = timers[id].duration
        /\ \A id \in 1 .. Len(timers') :
              /\ id > Len(timers) => timers'[id].remaining = timers'[id].duration
              /\ timers'[id].duration >= 0 =>
                    (0 <= timers'[id].remaining
                       /\ timers'[id].remaining <= timers'[id].duration) ]_vars

\* a timer of 61 seconds has ticked once
C31_Witness ==
    \E id \in TimerIds :
        /\ timers[id].duration = 61 /\ timers[id].remaining = 60
        /\ TLogHas("write_remaining")

\* a timer of 0 seconds has completed with nothing taken off
C31_WitnessZero ==
    \E id \in TimerIds :
        timers[id].duration = 0 /\ timers[id].remaining = 0 /\ timers[id].completed

\* C32 (as stated): cancel_timer with an id that is not in the registry
\* raises, writes no field and fires no side effect; with a registered id
\* it requests the cancellation of that timer's task and does nothing else.
C32_CancelOnlyRequests ==
    TCall("cancel_timer") =>
        IF tlog[1].t \in TimerIds /\ timers[tlog[1].t].reg
        THEN tlog = << TEv("call", tlog[1].t, "cancel_timer", 0),
                       TEv("task_cancel", tlog[1].t, "cancel_timer", 0),
                       TEv("returned", tlog[1].t, "cancel_timer", 0) >>
        ELSE tlog = << TEv("call", tlog[1].t, "cancel_timer", 0),
                       TEv("raised", tlog[1].t, "cancel_timer", 0) >>

\* C32 (amended): cancel_timer with an id that is not in the registry (never
\* handed out, or swept) raises, writes no field and fires no side effect.
\* With a registered id it either finds the task finished and does nothing,
\* or it requests the cancellation of the task, writes cancelled itself and
\* fires the "cancelled" side effect, whose failure it raises to its caller;
\* it never removes the timer.
C32_CancelUnknownOrRequestAndMark ==
    TCall("cancel_timer") =>
        IF tlog[1].t \in TimerIds /\ timers[tlog[1].t].reg
        THEN \/ tlog = << TEv("call", tlog[1].t, "cancel_timer", 0),
                          TEv("returned", tlog[1].t, "cancel_timer", 0) >>
             \/ /\ Len(tlog) = 5
                /\ tlog[2] = TEv("task_cancel", tlog[1].t, "cancel_timer", 0)
                /\ tlog[3] = TEv("write_cancelled", tlog[1].t, "cancel_timer", 0)
                /\ tlog[4] = TEv("speak_cancelled", tlog[1].t, "cancel_timer", 0)
                /\ tlog[5] \in { TEv("returned", tlog[1].t, "cancel_timer", 0),
                                 TEv("raised", tlog[1].t, "cancel_timer", 0) }
        ELSE tlog = << TEv("call", tlog[1].t, "cancel_timer", 0),
                       TEv("raised", tlog[1].t, "cancel_timer", 0) >>

\* cancel_timer has just been called with the id of a timer the sweep removed
C32_Witness ==
    /\ TCall("cancel_timer")
    /\ tlog[1].t \in TimerIds /\ ~timers[tlog[1].t].reg
    /\ tlog[Len(tlog)].e = "raised"

\* cancel_timer has just been called with an id that was never handed out,
\* while a timer is counting down
C32_WitnessNeverIssued ==
    /\ TCall("cancel_timer")
    /\ tlog[1].t \notin TimerIds
    /\ \E id \in TimerIds : timers[id].task = "sleep" /\ ~timers[id].cancelled

\* C35 (as stated): no timer is both completed and cancelled.
C35_NeverCompletedAndCancelled ==
    \A id \in TimerIds : ~(timers[id].completed /\ timers[id].cancelled)

\* C36 (as stated): when quick_timer raises, it has added no timer to the
\* registry and started no countdown task.
C36_RaiseLeavesNoTimer ==
    (TCall("quick_timer") /\ tlog[Len(tlog)].e = "raised") =>
        /\ ~TLogHas("registered")
        /\ \A id \in TimerIds : tlog[Len(tlog) - 1].e = "speak_setting" => ~TaskAlive(timers[id])

\* C39: a timer of 60 seconds or less never announces the last minute, also
\* when it starts at exactly 60, and it announces its completion at most
\* once: exactly once, being marked completed, when its countdown task has
\* finished without a cancellation.
C39_ShortTimerSkipsMinute ==
    \A id \in TimerIds :
        timers[id].duration <= 60 =>
            /\ timers[id].minute = 0
            /\ timers[id].task /= "say_minute"
            /\ timers[id].complete <= 1
            /\ timers[id].complete = 1 <=> timers[id].completed
            /\ (TaskOver(timers[id]) /\ ~timers[id].cancelled) =>
                  (timers[id].complete = 1 /\ timers[id].remaining <= 0)
            /\ (timers[id].task = "failed") => timers[id].completed

\* a timer of exactly 60 seconds has ticked and said nothing
C39_Witness ==
    \E id \in TimerIds :
        /\ timers[id].duration = 60 /\ timers[id].remaining = 59
        /\ timers[id].minute = 0 /\ timers[id].task = "sleep"

\* a timer of 0 seconds has finished after announcing its completion
C39_WitnessCompleted ==
    \E id \in TimerIds :
        /\ timers[id].duration = 0 /\ timers[id].task = "done"
        /\ timers[id].complete = 1 /\ ~timers[id].cancelled

C38_BufferEmptiedOnlyByTransition ==
    [][ /\ buf' /= buf =>
              \/ pc.at = "idle" /\ buf' = Append(buf, call'.sym)
              \/ buf' = <<>> /\ \E j \in 1 .. Len(evs') : evs'[j].e = "transition"
        /\ \A j \in 1 .. Len(evs') :
              evs'[j].e = "pattern_match" =>
                  Matches(states[cur].handlers[evs'[j].n].pattern, EvaluatedBuffer)
        /\ ((\E j \in 1 .. Len(evs') : evs'[j].e = "matched")
              /\ (\A j \in 1 .. Len(evs') : evs'[j].e /= "transition")) =>
              buf' = EvaluatedBuffer ]_vars

\* a handler without a next state has matched the two buffered symbols,
\* which are still in the buffer
C38_Witness ==
    /\ HasEv("matched") /\ ~HasEv("transition")
    /\ Len(buf) = 2
    /\ Len(call.invoked) = 1 /\ call.invoked[1].outcome = "ok"

\* a third symbol was evaluated behind two symbols that had matched
C38_WitnessNext ==
    /\ doc = DocGreeting
    /\ Len(buf) = 3 /\ buf[2] = "#"
    /\ PlainNoMatch

\* the three events of the quick-timer pattern
QuickSequence(d) == << Msg("off_hook", None), Msg("dtmf", d), Msg("on_hook", None) >>

\* the handler invocations of the step that leads to the primed state
Invocations == { j \in 1 .. Len(evs') : evs'[j].e \in {"invoke", "enter", "enter_abort"} }

\* C33: under a table whose state "initial" carries the quick-timer
\* pattern, the events off_hook, dtmf(d), on_hook with one digit d of 1..9
\* invoke the timer-creation handler exactly once, with the minutes the
\* parser reads from that sequence, which are d; the off_hook step, the
\* on_hook step and the return of the handler invoke nothing.
C33_QuickTimerInvokedOnce ==
    [][ doc = DocMain =>
          /\ ( Takes /\ Head(queue).type = "dtmf" /\ Head(queue).digit \in Digits
               /\ off_hook /\ cur = "initial" /\ buf = <<>> ) =>
                LET d == Head(queue).digit
                    c == _match_quick_timer(QuickSequence(d))
                IN  /\ c.name = "quick_timer"
                    /\ c.args.minutes = DigitVal(d)
                    /\ Cardinality(Invocations) = 1
                    /\ \A j \in Invocations :
                          /\ evs'[j].e = "invoke"
                          /\ evs'[j].a = "timer_manager.create_timer"
                    /\ call'.invoked =
                         << [ i |-> 1,
                              arg |-> [val |-> <<c.args.minutes>>, str |-> <<>>],
                              outcome |-> "pending" ] >>
          /\ (Takes /\ Head(queue).type = "off_hook") => Invocations = {}
          /\ (Takes /\ Head(queue).type = "on_hook") => UNCHANGED <<evs, call, pc>>
          /\ ( pc.at = "bound" /\ pc.s = "initial" /\ pc.i = 1 /\ pc' /= pc ) =>
                /\ Invocations = {}
                /\ Len(call'.invoked) = 1 ]_vars

\* off_hook, dtmf("9"), on_hook have been taken: the line is on-hook again
\* and the timer-creation handler has returned from its one call, with 9
C33_Witness ==
    /\ doc = DocMain
    /\ ~off_hook /\ cur = "initial" /\ pc = Idle
    /\ call.sym = "9"
    /\ call.invoked = << [ i |-> 1, arg |-> [val |-> <<9>>, str |-> <<>>],
                           outcome |-> "ok" ] >>

\* C34: parse_sequence selects, for dtmf("*") dtmf("1"), the service
\* command with the action lights_on and the default entity of lights_on,
\* group.all_lights, and for dtmf("*") dtmf("0") the action lights_off with
\* the same entity; in both cases no other matcher returns a command, and
\* neither action is selected for any other list.
C34_StarOneOnStarZeroOff ==
    command /= Unparsed =>
        /\ events = << Msg("dtmf", "*"), Msg("dtmf", "1") >> =>
              /\ command = Command("service",
                                   [action |-> "lights_on",
                                    entity |-> DefaultEntity("lights_on")], events)
              /\ command.args.entity = "group.all_lights"
              /\ Cardinality({ j \in 1 .. 3 : matchers(events)[j] /= NoCommand }) = 1
        /\ events = << Msg("dtmf", "*"), Msg("dtmf", "0") >> =>
              /\ command = Command("service",
                                   [action |-> "lights_off",
                                    entity |-> DefaultEntity("lights_off")], events)
              /\ command.args.entity = "group.all_lights"
              /\ Cardinality({ j \in 1 .. 3 : matchers(events)[j] /= NoCommand }) = 1
        /\ (command.name = "service" /\ command.args.action = "lights_on") =>
              (events[1] = Msg("dtmf", "*") /\ JoinDigits(Tail(events)) = <<"1">>)
        /\ (command.name = "service" /\ command.args.action = "lights_off") =>
              (events[1] = Msg("dtmf", "*") /\ JoinDigits(Tail(events)) = <<"0">>)

\* "*" and "1" have been parsed
C34_Witness ==
    /\ events = << Msg("dtmf", "*"), Msg("dtmf", "1") >>
    /\ command.name = "service"

\* "*" and "0" have been parsed
C34_WitnessOff ==
    /\ events = << Msg("dtmf", "*"), Msg("dtmf", "0") >>
    /\ command.name = "service"

\* the transition table as the claim gives it
AllowedChanges ==
    { <<"idle", "processing">>, <<"idle", "error">>,
      <<"processing", "idle">>, <<"processing", "error">>,
      <<"error", "idle">> }

\* C40: set_state(new) succeeds exactly when the table allows new from the
\* current state; then new becomes the current state, the old one the
\* previous state, and the change is recorded.  Any other request (the same
\* state, an unknown state) raises StateError and leaves the current state,
\* the previous state and the recorded changes as they were.  The current
\* state is always idle, processing or error.
C40_SetStateFollowsTable ==
    [][ /\ set_state_raised'.raised =>
              /\ <<current_state, set_state_raised'.request>> \notin AllowedChanges
              /\ UNCHANGED <<current_state, previous_state, state_changes>>
        /\ ( \/ <<current_state, previous_state, state_changes>>' /=
                  <<current_state, previous_state, state_changes>>
             \/ (~set_state_raised'.raised /\ set_state_raised' /= set_state_raised) ) =>
              /\ ~set_state_raised'.raised
              /\ <<current_state, set_state_raised'.request>> \in AllowedChanges
              /\ current_state' = set_state_raised'.request
              /\ previous_state' = current_state
              /\ state_changes' =
                    Append(state_changes,
                           [from_state |-> current_state, to_state |-> current_state'])
        /\ current_state' \in {"idle", "processing", "error"} ]_vars

\* a request for the state the tracker is in has just been refused, after
\* changes of state
C40_Witness ==
    /\ set_state_raised.raised
    /\ set_state_raised.request = current_state
    /\ Len(state_changes) >= 2
    /\ previous_state /= None

\* a request for an unknown state has just been refused
C40_WitnessUnknown ==
    /\ set_state_raised.raised
    /\ set_state_raised.request = "shutdown"
    /\ current_state = "error"

====
